---------------------------- MODULE Spec2Model ----------------------------
(***************************************************************************)
(* CodeSearch-AI: the query orchestration and caching layer.               *)
(*                                                                         *)
(*   RedisCache        (src/redis_cache.py)  key normalizer + cache store  *)
(*   CodeSearchLogger  (src/logger.py)       metrics recorder              *)
(*   ReactDotChatbot   (src/chatbot.py)      query orchestrator (ask)      *)
(*                                                                         *)
(* Every Python call is modelled as a small-step process of a thread: one  *)
(* step per Redis command and one step per read and per write of a shared  *)
(* logger attribute.  The Redis server, the clock and the RAG pipeline are *)
(* the environment.                                                        *)
(***************************************************************************)
EXTENDS Integers, Sequences, FiniteSets, Bags, TLC

(***************************************************************************)
(* Bounds of the model.                                                    *)
(***************************************************************************)
\* calls of the cache store (get, set, another client's write) begun in one
\* behaviour of the cache store
MaxCacheOps == 2
\* calls begun in one behaviour of the cache store's administration
\* (get_stats, reset_stats, health_check, beside get and set)
MaxAdminOps == 2
\* ask calls begun in one behaviour of the chatbot
MaxAsks == 2
\* log_query / log_error calls begun in one behaviour of the logger
MaxLogCalls == 3
\* the clock advances at most MaxTicks times, half a TTL each time
MaxTicks == 2
\* log_query calls made one after another on one logger, enough of them to
\* overflow recent_queries
MaxRingCalls == 104
\* the texts given to the key normalizer have at most MaxTextLen characters
MaxTextLen == 3
\* log_query calls made one after another on the logger whose analytics are
\* read
MaxRecCalls == 5
\* calls made on a chatbot, its construction included
MaxChatbotCalls == 3
\* get_logger calls
MaxLoggerCalls == 8

(***************************************************************************)
(* Program constants.                                                      *)
(***************************************************************************)
\* RedisCache(ttl_hours=24): self.ttl = timedelta(hours=ttl_hours)
ttl_hours == 24
\* log_entry["query"] = query[:100]
QueryTruncLen == 100
\* self.recent_queries = deque(maxlen=100)
RecentMaxLen == 100
\* key_prefix: str = 'codesearch'
key_prefix == "codesearch"

(***************************************************************************)
(* Text.  A question is a sequence of characters.                          *)
(***************************************************************************)
LowerLetters == {"j", "s"}
UpperLetters == {"J", "S"}
Whitespace == {" ", "\t"}
Alphabet == LowerLetters \cup UpperLetters \cup Whitespace

\* str.lower() on one character
LowerChar(c) ==
    CASE c = "J" -> "j"
      [] c = "S" -> "s"
      [] OTHER -> c

\* str.lower()
Lower(s) == [i \in 1..Len(s) |-> LowerChar(s[i])]

RECURSIVE LStrip(_)
LStrip(s) ==
    IF s # <<>> /\ Head(s) \in Whitespace THEN LStrip(Tail(s)) ELSE s

RECURSIVE RStrip(_)
RStrip(s) ==
    IF s # <<>> /\ s[Len(s)] \in Whitespace
    THEN RStrip(SubSeq(s, 1, Len(s) - 1))
    ELSE s

\* str.strip()
Strip(s) == RStrip(LStrip(s))

\* removes one whitespace character, if there is one, at each end
StripOnce(s) ==
    LET a == IF s # <<>> /\ Head(s) \in Whitespace THEN Tail(s) ELSE s
    IN  IF a # <<>> /\ a[Len(a)] \in Whitespace THEN SubSeq(a, 1, Len(a) - 1) ELSE a

\* a _normalize_query that strips one character only
NormalizeStripOnce(query) == StripOnce(Lower(query))

\* a _normalize_query that forgets .strip()
NormalizeWithoutStrip(query) == Lower(query)

\* a _normalize_query that removes the whitespace inside the text too
NormalizeDropsSpaces(query) == SelectSeq(Lower(query), LAMBDA c : c \notin Whitespace)

\* RedisCache._normalize_query: query.lower().strip()
_normalize_query(query) == Strip(Lower(query))

CharCode(c) ==
    CASE c = "j" -> 1
      [] c = "s" -> 2
      [] c = "J" -> 3
      [] c = "S" -> 4
      [] c = " " -> 5
      [] OTHER -> 6

\* hashlib.md5(normalized.encode()).hexdigest(): a digest taken as
\* collision-free, here the base-7 numeral of the text.
RECURSIVE Md5(_)
Md5(s) ==
    IF s = <<>> THEN 0 ELSE CharCode(s[Len(s)]) + 7 * Md5(SubSeq(s, 1, Len(s) - 1))

\* a key made of the question as it was typed
CacheKeyOfRawQuery(query) == <<key_prefix, "query:", Md5(query)>>

\* RedisCache._generate_cache_key: f'{self.key_prefix}query:{query_hash}'
_generate_cache_key(query) ==
    <<key_prefix, "query:", Md5(_normalize_query(query))>>

\* the questions asked in the model: "Js", "  jS " (same text up to case and
\* surrounding whitespace) and "j s" (inner whitespace: another text)
QJs == <<"J", "s">>
QJsVariant == <<" ", "j", "S", "\t">>
QInner == <<"j", " ", "s">>
Questions == {QJs, QJsVariant, QInner}

CacheKeys == {_generate_cache_key(q) : q \in Questions}

\* the texts given to the key normalizer on its own
Texts == UNION {[1..n -> Alphabet] : n \in 0..MaxTextLen}

(***************************************************************************)
(* Values.                                                                 *)
(***************************************************************************)
\* what the pipeline can answer, and the documents it can retrieve (each
\* document is given by doc.metadata.get("source", "Unknown"))
Answers == {"useState is", "JSX is"}
Contexts == {<<"doc1", "doc1", "doc2">>, <<"Unknown">>}
\* str(e) of what the pipeline can raise: Exception("boom"), Exception()
ErrorTexts == {"boom", ""}

\* a value stored under a query key: kind "json" is the text json.dumps
\* wrote for {answer, sources}; kind "malformed" is a text json.loads rejects
\* (written by another client of the Redis database); kind "none" is nil.
NoPayload == [kind |-> "none", keys |-> {}, answer |-> "", sources |-> EmptyBag]
Malformed == [kind |-> "malformed", keys |-> {}, answer |-> "", sources |-> EmptyBag]
Json(answer, sources) ==
    [kind |-> "json", keys |-> {"answer", "sources"}, answer |-> answer,
     sources |-> sources]

\* A list is kept as the bag of its elements: what it holds and how often,
\* not in which order (the order of list(set(...)) is not fixed).
\* a list of sources that keeps every document's entry
SourcesWithRepeats(context) ==
    [x \in {context[i] : i \in 1..Len(context)} |->
        Cardinality({i \in 1..Len(context) : context[i] = x})]

\* list(set([doc.metadata.get("source", "Unknown") for doc in result["context"]]))
DedupSources(context) == SetToBag({context[i] : i \in 1..Len(context)})

Payloads == {Json(a, DedupSources(c)) : a \in Answers, c \in Contexts}
\* the payloads given to set when it is called on the cache itself
SetPayloads ==
    {Json("useState is", SetToBag({"doc1", "doc2"})), Json("JSX is", SetToBag({"Unknown"}))}

NoEntry == [data |-> NoPayload, expiry |-> 0]

Threads == {"t1", "t2"}

VARIABLES
    entries,        \* Redis: query key -> [data, expiry] (NoEntry: no key)
    hits,           \* Redis: the integer under '{key_prefix}stats:hits'
    misses,         \* Redis: the integer under '{key_prefix}stats:misses'
    redisUp,        \* Redis: whether a command sent now is served
    now,            \* the clock, in hours
    use_cache,      \* ReactDotChatbot.use_cache and .cache is not None
    _logger_instance, \* logger.py's global: 0 is None, n the n-th logger created
    loggers,        \* CodeSearchLogger instances created so far
    total_queries,  \* CodeSearchLogger.total_queries
    total_errors,   \* CodeSearchLogger.total_errors
    cache_hits,     \* CodeSearchLogger.cache_hits
    cache_misses,   \* CodeSearchLogger.cache_misses
    recent_queries, \* CodeSearchLogger.recent_queries
    th,             \* per thread: the frame of the call it executes
    nOps,           \* calls begun so far
    getCalls,       \* RedisCache.get calls that have ended (history)
    lqCalls,        \* log_query calls that have ended (history)
    appends,        \* recent_queries.append calls made (history)
    lastSet         \* per question: the last served write to its key (history)

redis == <<entries, hits, misses>>
logger == <<total_queries, total_errors, cache_hits, cache_misses, recent_queries>>
history == <<getCalls, lqCalls, appends, lastSet>>
\* what the process fixes when it builds its chatbot and its logger
process == <<use_cache, _logger_instance, loggers>>
vars == <<entries, hits, misses, redisUp, now, use_cache, _logger_instance, loggers, total_queries,
          total_errors, cache_hits, cache_misses, recent_queries, th, nOps,
          getCalls, lqCalls, appends, lastSet>>

(***************************************************************************)
(* Responses and frames.                                                   *)
(***************************************************************************)
\* a response dict: the keys it has and the values under them
NoResponse ==
    [keys |-> {}, answer |-> "", sources |-> EmptyBag, cached |-> FALSE,
     response_time |-> 0, error |-> ""]

\* Optional[str]: None, or a text
None == [none |-> TRUE, text |-> ""]
Some(text) == [none |-> FALSE, text |-> text]

\* what the pipeline call did: returned {answer, context} or raised
NoOutcome == [ok |-> FALSE, answer |-> "", context |-> <<>>, text |-> ""]
Returns(answer, context) == [ok |-> TRUE, answer |-> answer, context |-> context, text |-> ""]
Raises(text) == [ok |-> FALSE, answer |-> "", context |-> <<>>, text |-> text]
PipelineOutcomes ==
    {Returns("useState is", <<"doc1", "doc1", "doc2">>), Returns("JSX is", <<"Unknown">>)}
    \cup {Raises(e) : e \in ErrorTexts}

NoWrite == [valid |-> FALSE, data |-> NoPayload, at |-> 0]

\* the logger's counters as a call finds them (history)
Snapshot ==
    [total_queries |-> total_queries, total_errors |-> total_errors,
     cache_hits |-> cache_hits, cache_misses |-> cache_misses,
     appends |-> appends]

\* a finished call, as the next call of the thread remembers it (history)
NoCall ==
    [valid |-> FALSE, op |-> "none", pc |-> "idle", query |-> <<>>,
     bypass_cache |-> FALSE, entryLive |-> FALSE, cached |-> FALSE, answer |-> "",
     sources |-> EmptyBag, pipelineOk |-> FALSE, served |-> TRUE,
     set_result |-> "none", setAt |-> 0]
Summary(f) ==
    [valid |-> f.op # "none", op |-> f.op, pc |-> f.pc, query |-> f.query,
     bypass_cache |-> f.bypass_cache, entryLive |-> f.entryLive, cached |-> f.response.cached, answer |-> f.response.answer,
     sources |-> f.response.sources,
     pipelineOk |-> f.pipeline.ok, served |-> f.faults = 0,
     set_result |-> f.set_result, setAt |-> f.setAt]

\* what a call other than ask, get, set and log_query returned: a text, a
\* key, a list of dicts, a dict of statistics or a count
\* a quotient a / b, kept exact (round() is not applied): its numerator and
\* denominator; 0 is 0 / 1
Zero == [num |-> 0, den |-> 1]

\* the dict get_statistics returns, with the list response_times it built
NoStats ==
    [keys |-> {}, total_queries |-> 0, total_errors |-> 0, cache_hits |-> 0,
     cache_misses |-> 0, error_rate_percent |-> Zero,
     cache_hit_rate_percent |-> Zero, avg_response_time |-> Zero,
     avg_sources_per_query |-> Zero, recent_queries_count |-> 0,
     fastest_response |-> 0, slowest_response |-> 0, response_times |-> <<>>]

\* the dict RedisCache.get_stats returns; the two rounded figures are in
\* hundredths (round(x, 2))
NoCacheStats ==
    [keys |-> {}, hits |-> 0, misses |-> 0, total_requests |-> 0,
     hit_rate_percent |-> 0, cached_queries |-> 0, memory_usage_mb |-> 0,
     error |-> ""]

NoResult ==
    [kind |-> "none", text |-> <<>>, key |-> <<>>, items |-> <<>>,
     stats |-> NoStats, deleted |-> 0, error |-> "",
     \* get_stats; health_check: status, connected, latency_ms (a whole
     \* number of milliseconds, which round(latency_ms, 2) leaves as it is)
     cstats |-> NoCacheStats, status |-> "", connected |-> FALSE,
     latency_ms |-> 0,
     \* export_metrics_summary: popular_queries and slow_queries
     popular |-> <<>>, slow |-> <<>>,
     \* get_logger: the instance returned
     instance |-> 0,
     \* ReactDotChatbot.health_check: health["status"] and the status of
     \* components.chromadb (status above is that of components.redis)
     overall |-> "", chromadb |-> ""]

\* the frame of a thread that executes nothing
Idle ==
    [pc |-> "idle", op |-> "none", query |-> <<>>, bypass_cache |-> FALSE,
     result |-> NoResult, top_n |-> 0, threshold_seconds |-> 0,
     \* clear: the keys KEYS returned; history of the call: the store as KEYS
     \* found it, whether DEL found it the same, the query keys that held a
     \* value before and after the last command of the call, and whether
     \* that command left the counters as they were
     keys |-> {}, seenEntries |-> <<>>, undisturbed |-> TRUE,
     liveBefore |-> {}, liveAfter |-> {}, countersKept |-> TRUE,
     \* get_stats: history of the call: the counters and the live query keys
     \* as its commands found them; reset_stats: the counters as the call
     \* left them
     seenHits |-> 0, seenMisses |-> 0, seenKeys |-> {},
     hitsAfter |-> 0, missesAfter |-> 0,
     \* get: history of the call: whether its GET left every entry, expiry
     \* included, as it was
     storeKept |-> TRUE,
     \* export_metrics_summary: history of the call: the buffer as each of
     \* its three parts found it, and total_queries as it was when
     \* get_statistics listed the buffer
     bufferSeen |-> [stats |-> <<>>, popular |-> <<>>, slow |-> <<>>],
     \* ask in a session: history: the successful pipeline calls that had
     \* been made when the call began
     known |-> {},
     totalSeen |-> 0,
     cached_data |-> NoPayload, cached_result |-> NoPayload,
     payload |-> NoPayload, set_result |-> "none",
     response |-> NoResponse, success |-> TRUE, error |-> None,
     tmp |-> 0, start_time |-> 0, after |-> "ret",
     \* history of the call: the pipeline's outcome and the number of its
     \* calls, the Redis commands sent and those that failed, the INCRs
     \* served, the time of GET and of SETEX, whether GET's key was live,
     \* the last write to the key as GET found it, the logger's counters as
     \* the call found them, and the call this thread made before
     pipeline |-> NoOutcome, pipelineCalls |-> 0, pipelineInput |-> <<>>,
     cmds |-> 0, faults |-> 0,
     incrHits |-> 0, incrMisses |-> 0, readAt |-> 0, setAt |-> 0,
     entryLive |-> FALSE, seenSet |-> NoWrite, prev |-> NoCall,
     snap |-> [total_queries |-> 0, total_errors |-> 0, cache_hits |-> 0,
               cache_misses |-> 0, appends |-> 0]]

\* a thread executes no call
Free(t) == th[t].pc \in {"idle", "ret", "raised"}

\* a call can begin on a thread that executes none; of two free threads the
\* first takes it (the threads are interchangeable)
CanBegin(t) == Free(t) /\ (t = "t1" \/ ~Free("t1"))

\* RedisCache.__init__ has pinged the server; CodeSearchLogger.__init__
InitState ==
    /\ entries = [k \in CacheKeys |-> NoEntry]
    /\ hits = 0
    /\ misses = 0
    /\ redisUp = TRUE
    /\ _logger_instance = 1
    /\ loggers = 1
    /\ now = 0
    /\ total_queries = 0
    /\ total_errors = 0
    /\ cache_hits = 0
    /\ cache_misses = 0
    /\ recent_queries = <<>>
    /\ th = [t \in Threads |-> Idle]
    /\ nOps = 0
    /\ getCalls = 0
    /\ lqCalls = 0
    /\ appends = 0
    /\ lastSet = [q \in Questions |-> NoWrite]

\* ReactDotChatbot.__init__: with the cache, or without it (use_cache=False,
\* or the connection failed)
Init == InitState /\ use_cache \in BOOLEAN

\* a RedisCache
InitCache == InitState /\ use_cache = TRUE

(***************************************************************************)
(* The environment: the clock and the Redis server.                        *)
(***************************************************************************)
\* The clock and the server are observed by the steps that read the clock
\* or send a Redis command, and by the calls that begin: a change at any
\* other moment is the same change made just before the next such step.
ClockPcs ==
    {"get_cmd", "set_cmd", "ask_got", "ask_pipeline", "ask_final", "lq_append",
     "clear_keys", "clear_del", "stats_keys", "health_ping"}
RedisPcs ==
    {"get_cmd", "get_hit", "get_miss", "get_except", "set_cmd", "clear_keys",
     "clear_del", "stats_hits", "stats_misses", "stats_keys", "stats_info",
     "reset_del", "health_ping", "init_ping"}
Observed(pcs) == (\A t \in Threads : Free(t)) \/ (\E t \in Threads : th[t].pc \in pcs)

\* half a TTL passes
Tick ==
    /\ Observed(ClockPcs)
    /\ now + (ttl_hours \div 2) <= MaxTicks * (ttl_hours \div 2)
    /\ now' = now + (ttl_hours \div 2)
    /\ UNCHANGED <<redis, redisUp, process, logger, th, nOps, history>>

\* the server becomes unreachable (connection errors, timeouts) ...
RedisFail ==
    /\ Observed(RedisPcs)
    /\ redisUp
    /\ redisUp' = FALSE
    /\ UNCHANGED <<redis, now, process, logger, th, nOps, history>>

\* ... and reachable again
RedisRecover ==
    /\ Observed(RedisPcs)
    /\ ~redisUp
    /\ redisUp' = TRUE
    /\ UNCHANGED <<redis, now, process, logger, th, nOps, history>>

\* another client of the database stores a text that is not JSON under a
\* query key
ForeignWrite(k) ==
    /\ redisUp
    /\ nOps < MaxCacheOps
    /\ nOps' = nOps + 1
    /\ entries' = [entries EXCEPT ![k] = [data |-> Malformed, expiry |-> now + ttl_hours]]
    /\ lastSet' = [q \in Questions |->
                     IF _generate_cache_key(q) = k THEN NoWrite ELSE lastSet[q]]
    /\ UNCHANGED <<hits, misses, redisUp, now, process, logger, th,
                   getCalls, lqCalls, appends>>

\* GET key: the value, nil when the key is absent or has expired
RedisGet(k) ==
    IF entries[k].data.kind # "none" /\ now < entries[k].expiry
    THEN entries[k].data
    ELSE NoPayload

\* GETEX key EX ttl: a read that gives a live entry a new expiry
AfterGetex(k) ==
    IF entries[k].data.kind # "none" /\ now < entries[k].expiry
    THEN [entries EXCEPT ![k].expiry = now + ttl_hours]
    ELSE entries

\* GET key leaves the entries as they are
AfterGet(k) == entries

\* SETEX key ttl value
RedisSetex(k, ttl, value) ==
    [entries EXCEPT ![k] = [data |-> value, expiry |-> now + ttl]]

(***************************************************************************)
(* RedisCache.get (src/redis_cache.py 101-124).                            *)
(***************************************************************************)
\* where a callee's return leads: back into ask, or to the caller of the
\* model's call
ReturnPc(f, inAsk) == IF f.op = "ask" THEN inAsk ELSE "ret"

\* `if cached_data:` / `if cached_result:`
Truthy(payload) == payload.kind # "none"

\* cached_data = self.redis_client.get(cached_key)
GetCmd(t) ==
    LET f == th[t]
        k == _generate_cache_key(f.query)
    IN  /\ f.pc = "get_cmd"
        /\ th' = [th EXCEPT ![t] =
                    IF redisUp
                    THEN [f EXCEPT !.cached_data = RedisGet(k),
                                   !.storeKept = (AfterGet(k) = entries),
                                   !.cmds = @ + 1,
                                   !.readAt = now,
                                   !.entryLive = Truthy(RedisGet(k)),
                                   !.seenSet = lastSet[f.query],
                                   !.pc = IF Truthy(RedisGet(k))
                                          THEN "get_hit" ELSE "get_miss"]
                    ELSE [f EXCEPT !.cmds = @ + 1,
                                   !.readAt = now,
                                   !.entryLive = Truthy(RedisGet(k)),
                                   !.seenSet = lastSet[f.query],
                                   !.faults = @ + 1,
                                   !.pc = "get_except"]]
        /\ entries' = IF redisUp THEN AfterGet(k) ELSE entries
        /\ UNCHANGED <<hits, misses, redisUp, now, process, logger, nOps, history>>

\* self.redis_client.incr(self.stats_hits_key); return json.loads(cached_data)
GetHit(t) ==
    LET f == th[t]
    IN  /\ f.pc = "get_hit"
        /\ IF redisUp
           THEN /\ hits' = hits + 1
                /\ IF f.cached_data.kind = "json"
                   THEN /\ th' = [th EXCEPT ![t] =
                                    [f EXCEPT !.cmds = @ + 1, !.incrHits = @ + 1,
                                              !.cached_result = f.cached_data,
                                              !.pc = ReturnPc(f, "ask_got")]]
                        /\ getCalls' = getCalls + 1
                   ELSE /\ th' = [th EXCEPT ![t] =
                                    [f EXCEPT !.cmds = @ + 1, !.incrHits = @ + 1,
                                              !.pc = "get_except"]]
                        /\ UNCHANGED getCalls
           ELSE /\ th' = [th EXCEPT ![t] =
                            [f EXCEPT !.cmds = @ + 1, !.faults = @ + 1, !.pc = "get_except"]]
                /\ UNCHANGED <<hits, getCalls>>
        /\ UNCHANGED <<entries, misses, redisUp, now, process, logger, nOps,
                       lqCalls, appends, lastSet>>

\* self.redis_client.incr(self.stats_hits_miss); return None
GetMiss(t) ==
    LET f == th[t]
    IN  /\ f.pc = "get_miss"
        /\ IF redisUp
           THEN /\ misses' = misses + 1
                /\ th' = [th EXCEPT ![t] =
                            [f EXCEPT !.cmds = @ + 1, !.incrMisses = @ + 1,
                                      !.cached_result = NoPayload,
                                      !.pc = ReturnPc(f, "ask_got")]]
                /\ getCalls' = getCalls + 1
           ELSE /\ th' = [th EXCEPT ![t] =
                            [f EXCEPT !.cmds = @ + 1, !.faults = @ + 1, !.pc = "get_except"]]
                /\ UNCHANGED <<misses, getCalls>>
        /\ UNCHANGED <<entries, hits, redisUp, now, process, logger, nOps,
                       lqCalls, appends, lastSet>>

\* except Exception: self.redis_client.incr(self.stats_hits_miss); return None
\* The incr of the handler is outside any try: when it fails too, its
\* exception leaves get, and leaves ask, which calls get outside its try.
GetExcept(t) ==
    LET f == th[t]
    IN  /\ f.pc = "get_except"
        /\ IF redisUp
           THEN /\ misses' = misses + 1
                /\ th' = [th EXCEPT ![t] =
                            [f EXCEPT !.cmds = @ + 1, !.incrMisses = @ + 1,
                                      !.cached_result = NoPayload,
                                      !.pc = ReturnPc(f, "ask_got")]]
           ELSE /\ th' = [th EXCEPT ![t] =
                            [f EXCEPT !.cmds = @ + 1, !.faults = @ + 1, !.pc = "raised"]]
                /\ UNCHANGED misses
        /\ getCalls' = getCalls + 1
        /\ UNCHANGED <<entries, hits, redisUp, now, process, logger, nOps,
                       lqCalls, appends, lastSet>>

(***************************************************************************)
(* RedisCache.set (src/redis_cache.py 126-141).                            *)
(***************************************************************************)
\* a set that lets the exception of a failed write go: it leaves set, and in
\* ask it is caught by the handler of the pipeline's try
SetFailedRaises(f) ==
    IF f.op = "ask"
    THEN [f EXCEPT !.set_result = "false", !.cmds = @ + 1, !.setAt = now,
                   !.faults = @ + 1,
                   !.response =
                       [keys |-> {"answer", "sources", "cached", "response_time", "error"},
                        answer |-> " Error processing your question: redis",
                        sources |-> EmptyBag, cached |-> FALSE,
                        response_time |-> now - f.start_time, error |-> "redis"],
                   !.success = FALSE, !.error = Some("redis"),
                   !.pc = "lq_total_read", !.after = "le_read"]
    ELSE [f EXCEPT !.cmds = @ + 1, !.setAt = now, !.faults = @ + 1, !.pc = "raised"]

\* except Exception as e: print(...); return False
SetFailed(f) ==
    [f EXCEPT !.set_result = "false", !.cmds = @ + 1, !.setAt = now,
              !.faults = @ + 1, !.pc = ReturnPc(f, "ask_final")]

\* a TTL taken in another unit: timedelta(minutes=ttl_hours), in hours
TtlInMinutes == ttl_hours \div 60

\* self.ttl = timedelta(hours=ttl_hours)
self_ttl == ttl_hours

\* cached_data = json.dumps(response, ensure_ascii=False)
\* self.redis_client.setex(cached_key, self.ttl, cached_data); return True
SetCmd(t) ==
    LET f == th[t]
        k == _generate_cache_key(f.query)
    IN  /\ f.pc = "set_cmd"
        /\ IF redisUp
           THEN /\ entries' = RedisSetex(k, self_ttl, f.payload)
                /\ lastSet' = [q \in Questions |->
                                 IF _generate_cache_key(q) = k
                                 THEN [valid |-> TRUE, data |-> f.payload, at |-> now]
                                 ELSE lastSet[q]]
                /\ th' = [th EXCEPT ![t] =
                            [f EXCEPT !.set_result = "true",
                                      !.cmds = @ + 1, !.setAt = now,
                                      !.pc = ReturnPc(f, "ask_final")]]
           ELSE /\ th' = [th EXCEPT ![t] = SetFailed(f)]
                /\ UNCHANGED <<entries, lastSet>>
        /\ UNCHANGED <<hits, misses, redisUp, now, process, logger, nOps,
                       getCalls, lqCalls, appends>>

\* cache.get(q) and cache.set(q, response) called on the cache itself
GetBegin(t, q) ==
    /\ CanBegin(t)
    /\ nOps < MaxCacheOps
    /\ nOps' = nOps + 1
    /\ th' = [th EXCEPT ![t] =
                [Idle EXCEPT !.op = "get", !.query = q, !.pc = "get_cmd",
                             !.snap = Snapshot, !.prev = Summary(th[t])]]
    /\ UNCHANGED <<redis, redisUp, now, process, logger, history>>

SetBegin(t, q, response) ==
    /\ CanBegin(t)
    /\ nOps < MaxCacheOps
    /\ nOps' = nOps + 1
    /\ th' = [th EXCEPT ![t] =
                [Idle EXCEPT !.op = "set", !.query = q, !.payload = response,
                             !.pc = "set_cmd", !.snap = Snapshot,
                             !.prev = Summary(th[t])]]
    /\ UNCHANGED <<redis, redisUp, now, process, logger, history>>

\* the keys of the two counters: f'{key_prefix}stats:hits', '...stats:misses'
stats_hits_key == <<key_prefix, "stats:", "hits">>
stats_hits_miss == <<key_prefix, "stats:", "misses">>

\* the keys the database holds: the query keys with a value that has not
\* expired, and the counters that were incremented
LiveQueryKeys == {k \in CacheKeys : Truthy(RedisGet(k))}
ExistingKeys ==
    LiveQueryKeys \cup (IF hits > 0 THEN {stats_hits_key} ELSE {})
                  \cup (IF misses > 0 THEN {stats_hits_miss} ELSE {})

\* a pattern that takes every key of the namespace: f'{self.key_prefix}*'
MatchesNamespace(k) == k[1] = key_prefix

\* pattern = f'{self.key_prefix}query*'
MatchesPattern(k) == k[1] = key_prefix /\ k[2] = "query:"

\* a clear that lets the exception of a failed command go
ClearFailedRaises(f) ==
    [f EXCEPT !.cmds = @ + 1, !.faults = @ + 1, !.pc = "raised",
              !.seenEntries = <<>>,
              !.liveBefore = LiveQueryKeys, !.liveAfter = LiveQueryKeys]

\* except Exception as e: return {'deleted': 0, "error": str(e)}
ClearFailed(f) ==
    [f EXCEPT !.cmds = @ + 1, !.faults = @ + 1, !.pc = "ret",
              !.result = [NoResult EXCEPT !.kind = "deleted", !.deleted = 0,
                                          !.error = "redis"],
              !.seenEntries = <<>>,
              !.liveBefore = LiveQueryKeys, !.liveAfter = LiveQueryKeys]

\* keys = self.redis_client.keys(pattern); if not keys: deleted = 0
ClearKeys(t) ==
    LET f == th[t]
        keys == {k \in ExistingKeys : MatchesPattern(k)}
    IN  /\ f.pc = "clear_keys"
        /\ th' = [th EXCEPT ![t] =
                    IF ~redisUp THEN ClearFailed(f)
                    ELSE IF keys = {}
                    THEN [f EXCEPT !.cmds = @ + 1, !.pc = "ret",
                                   !.result = [NoResult EXCEPT !.kind = "deleted",
                                                               !.deleted = 0],
                                   !.liveBefore = LiveQueryKeys,
                                   !.liveAfter = LiveQueryKeys]
                    ELSE [f EXCEPT !.cmds = @ + 1, !.pc = "clear_del",
                                   !.keys = keys, !.seenEntries = entries]]
        /\ UNCHANGED <<redis, redisUp, now, process, logger, nOps, history>>

\* deleted = self.redis_client.delete(*keys); return {'deleted': deleted}
ClearDelete(t) ==
    LET f == th[t]
        removed == f.keys \cap ExistingKeys
    IN  /\ f.pc = "clear_del"
        /\ IF redisUp
           THEN /\ entries' = [k \in CacheKeys |->
                                 IF k \in f.keys THEN NoEntry ELSE entries[k]]
                /\ hits' = IF stats_hits_key \in f.keys THEN 0 ELSE hits
                /\ misses' = IF stats_hits_miss \in f.keys THEN 0 ELSE misses
                /\ lastSet' = [q \in Questions |->
                                 IF _generate_cache_key(q) \in f.keys
                                 THEN NoWrite ELSE lastSet[q]]
                /\ th' = [th EXCEPT ![t] =
                            [f EXCEPT !.cmds = @ + 1, !.pc = "ret",
                                      !.result = [NoResult EXCEPT
                                                     !.kind = "deleted",
                                                     !.deleted = Cardinality(removed)],
                                      !.undisturbed = (entries = f.seenEntries),
                                      !.seenEntries = <<>>,
                                      !.liveBefore = LiveQueryKeys,
                                      !.liveAfter = LiveQueryKeys \ f.keys,
                                      !.countersKept =
                                          /\ stats_hits_key \in f.keys => hits = 0
                                          /\ stats_hits_miss \in f.keys => misses = 0]]
           ELSE /\ th' = [th EXCEPT ![t] = ClearFailed(f)]
                /\ UNCHANGED <<entries, hits, misses, lastSet>>
        /\ UNCHANGED <<redisUp, now, process, logger, nOps, getCalls, lqCalls,
                       appends>>

ClearStep(t) == ClearKeys(t) \/ ClearDelete(t)

\* cache.clear() called on the cache itself
ClearBegin(t) ==
    /\ CanBegin(t)
    /\ nOps < MaxCacheOps
    /\ nOps' = nOps + 1
    /\ th' = [th EXCEPT ![t] = [Idle EXCEPT !.op = "clear", !.pc = "clear_keys"]]
    /\ UNCHANGED <<redis, redisUp, now, process, logger, history>>

CacheStep(t) == GetCmd(t) \/ GetHit(t) \/ GetMiss(t) \/ GetExcept(t) \/ SetCmd(t)

Env == Tick \/ RedisFail \/ RedisRecover

\* the cache store used by concurrent callers, beside another client of
\* the database
NextCache ==
    \/ \E t \in Threads, q \in Questions : GetBegin(t, q)
    \/ \E t \in Threads, q \in Questions, r \in SetPayloads : SetBegin(t, q, r)
    \/ \E t \in Threads : CacheStep(t)
    \/ \E t \in Threads : ClearBegin(t)
    \/ \E t \in Threads : ClearStep(t)
    \/ \E k \in CacheKeys : ForeignWrite(k)
    \/ Env

SpecCache == InitCache /\ [][NextCache]_vars

(***************************************************************************)
(* The administration of the cache store: get_stats, reset_stats and       *)
(* health_check (src/redis_cache.py 144-177, 212-244).                     *)
(***************************************************************************)
\* round(num / den, 2), in hundredths, for num >= 0 and den > 0 (no quotient
\* of the model lies halfway between two hundredths)
Round2(num, den) == (200 * num + den) \div (2 * den)

\* a rate taken from the other counter: the misses among the requests
MissRatePercent(hits_, total) ==
    IF total > 0 THEN Round2((total - hits_) * 100, total) ELSE 0

\* hit_rate = (hits / total * 100) if total > 0 else 0; round(hit_rate, 2)
HitRatePercent(hits_, total) ==
    IF total > 0 THEN Round2(hits_ * 100, total) ELSE 0

\* info['used_memory'], in bytes: what INFO memory can report
UsedMemory == {1048576, 1205862}

\* except Exception as e: return {"error": str(e)}
StatsFailed(f) ==
    [f EXCEPT !.cmds = @ + 1, !.faults = @ + 1, !.pc = "ret",
              !.result = [NoResult EXCEPT
                             !.kind = "cstats",
                             !.cstats = [NoCacheStats EXCEPT !.keys = {"error"},
                                                             !.error = "redis"]]]

\* hits = int(self.redis_client.get(self.stats_hits_key) or 0)
StatsHits(t) ==
    LET f == th[t]
    IN  /\ f.pc = "stats_hits"
        /\ th' = [th EXCEPT ![t] =
                    IF redisUp
                    THEN [f EXCEPT !.cmds = @ + 1, !.pc = "stats_misses",
                                   !.result.cstats.hits = hits,
                                   !.seenHits = hits]
                    ELSE StatsFailed(f)]
        /\ UNCHANGED <<redis, redisUp, now, process, logger, nOps, history>>

\* misses = int(self.redis_client.get(self.stats_hits_miss) or 0)
StatsMisses(t) ==
    LET f == th[t]
    IN  /\ f.pc = "stats_misses"
        /\ th' = [th EXCEPT ![t] =
                    IF redisUp
                    THEN [f EXCEPT !.cmds = @ + 1, !.pc = "stats_keys",
                                   !.result.cstats.misses = misses,
                                   !.seenMisses = misses]
                    ELSE StatsFailed(f)]
        /\ UNCHANGED <<redis, redisUp, now, process, logger, nOps, history>>

\* total_keys = len(self.redis_client.keys(f'{self.key_prefix}query*'))
StatsKeys(t) ==
    LET f == th[t]
    IN  /\ f.pc = "stats_keys"
        /\ th' = [th EXCEPT ![t] =
                    IF redisUp
                    THEN [f EXCEPT !.cmds = @ + 1, !.pc = "stats_info",
                                   !.result.cstats.cached_queries =
                                       Cardinality({k \in ExistingKeys : MatchesPattern(k)}),
                                   !.seenKeys = LiveQueryKeys]
                    ELSE StatsFailed(f)]
        /\ UNCHANGED <<redis, redisUp, now, process, logger, nOps, history>>

\* info = self.redis_client.info('memory'); return {"hits": hits, ...}
StatsInfo(t, used_memory) ==
    LET f == th[t]
        c == f.result.cstats
        total == c.hits + c.misses
    IN  /\ f.pc = "stats_info"
        /\ th' = [th EXCEPT ![t] =
                    IF redisUp
                    THEN [f EXCEPT !.cmds = @ + 1, !.pc = "ret",
                                   !.result.kind = "cstats",
                                   !.result.cstats =
                                       [c EXCEPT
                                           !.keys = {"hits", "misses", "total_requests",
                                                     "hit_rate_percent", "cached_queries",
                                                     "memory_usage_mb"},
                                           !.total_requests = total,
                                           !.hit_rate_percent = HitRatePercent(c.hits, total),
                                           !.memory_usage_mb =
                                               Round2(used_memory, 1024 * 1024)]]
                    ELSE StatsFailed(f)]
        /\ UNCHANGED <<redis, redisUp, now, process, logger, nOps, history>>

GetStatsStep(t) ==
    \/ StatsHits(t) \/ StatsMisses(t) \/ StatsKeys(t)
    \/ \E used_memory \in UsedMemory : StatsInfo(t, used_memory)

\* cache.get_stats() called on the cache itself
GetStatsBegin(t) ==
    /\ CanBegin(t)
    /\ nOps < MaxAdminOps
    /\ nOps' = nOps + 1
    /\ th' = [th EXCEPT ![t] =
                [Idle EXCEPT !.op = "get_stats", !.pc = "stats_hits",
                             !.prev = Summary(th[t])]]
    /\ UNCHANGED <<redis, redisUp, now, process, logger, history>>

\* the attributes __init__ gives a RedisCache
Attributes ==
    {"pool", "redis_client", "ttl", "key_prefix", "stats_hits_key", "stats_hits_miss"}

\* self.redis_client.delete(self.stats_hits_key, self.stats_misses_key),
\* inside try ... except Exception: the arguments are evaluated before the
\* command is sent, and self.stats_misses_key raises AttributeError
ResetStats(t) ==
    LET f == th[t]
        sent == {"stats_hits_key", "stats_misses_key"} \subseteq Attributes
    IN  /\ f.pc = "reset_del"
        /\ IF sent /\ redisUp
           THEN /\ hits' = 0
                /\ misses' = 0
                /\ th' = [th EXCEPT ![t] =
                            [f EXCEPT !.cmds = @ + 1, !.pc = "ret",
                                      !.hitsAfter = 0, !.missesAfter = 0]]
           ELSE /\ th' = [th EXCEPT ![t] =
                            [f EXCEPT !.cmds = IF sent THEN @ + 1 ELSE @,
                                      !.faults = IF sent THEN @ + 1 ELSE @,
                                      !.pc = "ret",
                                      !.hitsAfter = hits, !.missesAfter = misses]]
                /\ UNCHANGED <<hits, misses>>
        /\ UNCHANGED <<entries, redisUp, now, process, logger, nOps, history>>

\* cache.reset_stats() called on the cache itself
ResetStatsBegin(t) ==
    /\ CanBegin(t)
    /\ nOps < MaxAdminOps
    /\ nOps' = nOps + 1
    /\ th' = [th EXCEPT ![t] =
                [Idle EXCEPT !.op = "reset_stats", !.pc = "reset_del",
                             !.prev = Summary(th[t])]]
    /\ UNCHANGED <<redis, redisUp, now, process, logger, history>>

\* seconds in an hour, and (time.time() - start) * 1000 of a time in hours
SecondsPerHour == 3600
Milliseconds(hours) == hours * SecondsPerHour * 1000

\* where RedisCache.health_check returns to: ReactDotChatbot.health_check
\* goes on with the vector store
\* or ReactDotChatbot.__init__ with `if health['connected']:`
HealthReturnPc(f) ==
    CASE f.op = "chatbot_health_check" -> "vector_probe"
      [] f.op = "__init__" -> "init_health"
      [] OTHER -> "ret"

\* a health_check that lets the exception of a failed ping go
HealthFailedRaises(f) ==
    [f EXCEPT !.cmds = @ + 1, !.faults = @ + 1, !.pc = "raised"]

\* except Exception as e:
\*     return {"status": "unhealthy", "error": str(e), "connected": False}
HealthFailed(f) ==
    [f EXCEPT !.cmds = @ + 1, !.faults = @ + 1, !.pc = HealthReturnPc(f),
              !.result = [NoResult EXCEPT !.kind = "health", !.status = "unhealthy",
                                          !.error = "redis", !.connected = FALSE]]

\* self.redis_client.ping(); latency_ms = (time.time() - start) * 1000
\* return {"status": "healthy", "latency_ms": round(latency_ms, 2),
\*         "connected": True}
HealthPing(t) ==
    LET f == th[t]
    IN  /\ f.pc = "health_ping"
        /\ th' = [th EXCEPT ![t] =
                    IF redisUp
                    THEN [f EXCEPT !.cmds = @ + 1, !.pc = HealthReturnPc(f),
                                   !.result =
                                       [NoResult EXCEPT
                                           !.kind = "health", !.status = "healthy",
                                           !.connected = TRUE,
                                           !.latency_ms =
                                               Milliseconds(now - f.start_time)]]
                    ELSE HealthFailed(f)]
        /\ UNCHANGED <<redis, redisUp, now, process, logger, nOps, history>>

\* cache.health_check() called on the cache itself: start = time.time()
HealthCheckBegin(t) ==
    /\ CanBegin(t)
    /\ nOps < MaxAdminOps
    /\ nOps' = nOps + 1
    /\ th' = [th EXCEPT ![t] =
                [Idle EXCEPT !.op = "health_check", !.pc = "health_ping",
                             !.start_time = now, !.prev = Summary(th[t])]]
    /\ UNCHANGED <<redis, redisUp, now, process, logger, history>>

\* ReactDotChatbot.health_check (src/chatbot.py 346-382):
\* health = {"status": "healthy", ...}; if self.cache: redis_health =
\* self.cache.health_check() else components.redis = {"status": "disabled"}
ChatbotHealthBegin(t) ==
    /\ CanBegin(t)
    /\ nOps < MaxAdminOps
    /\ nOps' = nOps + 1
    /\ th' = [th EXCEPT ![t] =
                [Idle EXCEPT !.op = "chatbot_health_check",
                             !.start_time = now, !.prev = Summary(th[t]),
                             !.result.status = IF use_cache THEN "" ELSE "disabled",
                             !.pc = IF use_cache THEN "health_ping" ELSE "vector_probe"]]
    /\ UNCHANGED <<redis, redisUp, now, process, logger, history>>

\* if not redis_health["connected"]: health["status"] = "degraded"
RedisStatus(f) == IF use_cache /\ ~f.result.connected THEN "degraded" ELSE "healthy"

\* a health check in which a failed probe leaves "degraded" standing
ProbeStatusKeepsDegraded(status, probe_ok) ==
    IF probe_ok \/ status = "degraded" THEN status ELSE "unhealthy"

\* try: ... components.chromadb = {"status": "healthy", ...}
\* except Exception as e: ...; health["status"] = "unhealthy"
ProbeStatus(status, probe_ok) == IF probe_ok THEN status ELSE "unhealthy"

\* test_results = self.vector_db.similarity_search("test", k=1), which
\* returns or raises; return health
VectorProbe(t, probe_ok) ==
    LET f == th[t]
    IN  /\ f.pc = "vector_probe"
        /\ th' = [th EXCEPT ![t] =
                    [f EXCEPT !.pc = "ret",
                              !.result.kind = "chatbot_health",
                              !.result.chromadb =
                                  IF probe_ok THEN "healthy" ELSE "unhealthy",
                              !.result.overall =
                                  ProbeStatus(RedisStatus(f), probe_ok)]]
        /\ UNCHANGED <<redis, redisUp, now, process, logger, nOps, history>>

\* the health of a chatbot, with or without a cache, asked by the sessions
NextHealth ==
    \/ \E t \in Threads : ChatbotHealthBegin(t)
    \/ \E t \in Threads : HealthPing(t)
    \/ \E t \in Threads, probe_ok \in BOOLEAN : VectorProbe(t, probe_ok)
    \/ Env

SpecHealth == Init /\ [][NextHealth]_vars

\* the counters an earlier run of the program left in the database
EarlierHits == {0, 1}
EarlierMisses == {0, 2}

\* a RedisCache on a database that earlier runs have used
InitAdmin ==
    /\ entries = [k \in CacheKeys |-> NoEntry]
    /\ hits \in EarlierHits
    /\ misses \in EarlierMisses
    /\ redisUp = TRUE
    /\ _logger_instance = 1
    /\ loggers = 1
    /\ now = 0
    /\ use_cache = TRUE
    /\ total_queries = 0
    /\ total_errors = 0
    /\ cache_hits = 0
    /\ cache_misses = 0
    /\ recent_queries = <<>>
    /\ th = [t \in Threads |-> Idle]
    /\ nOps = 0
    /\ getCalls = 0
    /\ lqCalls = 0
    /\ appends = 0
    /\ lastSet = [q \in Questions |-> NoWrite]

\* the cache store and its administration used by concurrent callers
NextAdmin ==
    \/ \E t \in Threads, q \in Questions : GetBegin(t, q)
    \/ \E t \in Threads, q \in Questions, r \in SetPayloads : SetBegin(t, q, r)
    \/ \E t \in Threads : CacheStep(t)
    \/ \E t \in Threads : GetStatsBegin(t)
    \/ \E t \in Threads : GetStatsStep(t)
    \/ \E t \in Threads : ResetStatsBegin(t)
    \/ \E t \in Threads : ResetStats(t)
    \/ \E t \in Threads : HealthCheckBegin(t)
    \/ \E t \in Threads : HealthPing(t)
    \/ Env

SpecAdmin == InitAdmin /\ [][NextAdmin]_vars

(***************************************************************************)
(* CodeSearchLogger (src/logger.py).  `self.x += 1` reads the attribute    *)
(* and then writes it: two steps, between which another thread may run.    *)
(***************************************************************************)
\* query[:100]
Truncate(query, n) == SubSeq(query, 1, IF Len(query) < n THEN Len(query) ELSE n)

\* response.get(key, default)
GetCached(response) == IF "cached" \in response.keys THEN response.cached ELSE FALSE
GetResponseTime(response) ==
    IF "response_time" \in response.keys THEN response.response_time ELSE 0
GetSources(response) == IF "sources" \in response.keys THEN response.sources ELSE EmptyBag
GetAnswer(response) == IF "answer" \in response.keys THEN response.answer ELSE ""

\* the dict appended to recent_queries
QueryRecord(f) ==
    [query |-> Truncate(f.query, QueryTruncLen),
     response_time |-> GetResponseTime(f.response),
     cached |-> GetCached(f.response),
     sources_count |-> BagCardinality(GetSources(f.response)),
     answer_length |-> Len(GetAnswer(f.response)),
     success |-> f.success,
     error |-> f.error,
     timestamp |-> now,
     full_query |-> f.query]

\* a deque that was given no maxlen
DequeAppendUnbounded(deque, x) == Append(deque, x)

\* deque(maxlen=100).append
DequeAppend(deque, x) ==
    IF Len(deque) < RecentMaxLen THEN Append(deque, x) ELSE Append(Tail(deque), x)

\* `if not success and error:`
IsLoggedError(f) == ~f.success /\ ~f.error.none /\ f.error.text # ""

\* self.total_queries += 1
LqTotalRead(t) ==
    /\ th[t].pc = "lq_total_read"
    /\ th' = [th EXCEPT ![t].tmp = total_queries, ![t].pc = "lq_total_write"]
    /\ UNCHANGED <<redis, redisUp, now, process, logger, nOps, history>>

LqTotalWrite(t) ==
    /\ th[t].pc = "lq_total_write"
    /\ total_queries' = th[t].tmp + 1
    /\ th' = [th EXCEPT ![t].pc = "lq_cache_read"]
    /\ UNCHANGED <<redis, redisUp, now, process, total_errors, cache_hits,
                   cache_misses, recent_queries, nOps, history>>

\* if cached: self.cache_hits += 1  else: self.cache_misses += 1
LqCacheRead(t) ==
    /\ th[t].pc = "lq_cache_read"
    /\ th' = [th EXCEPT ![t].tmp = IF GetCached(th[t].response)
                                   THEN cache_hits ELSE cache_misses,
                        ![t].pc = "lq_cache_write"]
    /\ UNCHANGED <<redis, redisUp, now, process, logger, nOps, history>>

LqCacheWrite(t) ==
    /\ th[t].pc = "lq_cache_write"
    /\ IF GetCached(th[t].response)
       THEN cache_hits' = th[t].tmp + 1 /\ UNCHANGED cache_misses
       ELSE cache_misses' = th[t].tmp + 1 /\ UNCHANGED cache_hits
    /\ th' = [th EXCEPT ![t].pc = "lq_append"]
    /\ UNCHANGED <<redis, redisUp, now, process, total_queries, total_errors,
                   recent_queries, nOps, history>>

\* self.recent_queries.append({...}); self.query_logger.info(log_msg)
LqAppend(t) ==
    LET f == th[t]
    IN  /\ f.pc = "lq_append"
        /\ recent_queries' = DequeAppend(recent_queries, QueryRecord(f))
        /\ appends' = appends + 1
        /\ IF IsLoggedError(f)
           THEN /\ th' = [th EXCEPT ![t].pc = "lq_error_read"]
                /\ UNCHANGED lqCalls
           ELSE /\ th' = [th EXCEPT ![t].pc = f.after]
                /\ lqCalls' = lqCalls + 1
        /\ UNCHANGED <<redis, redisUp, now, process, total_queries,
                       total_errors, cache_hits, cache_misses, nOps, getCalls,
                       lastSet>>

\* if not success and error: self.total_errors += 1
LqErrorRead(t) ==
    /\ th[t].pc = "lq_error_read"
    /\ th' = [th EXCEPT ![t].tmp = total_errors, ![t].pc = "lq_error_write"]
    /\ UNCHANGED <<redis, redisUp, now, process, logger, nOps, history>>

LqErrorWrite(t) ==
    /\ th[t].pc = "lq_error_write"
    /\ total_errors' = th[t].tmp + 1
    /\ th' = [th EXCEPT ![t].pc = th[t].after]
    /\ lqCalls' = lqCalls + 1
    /\ UNCHANGED <<redis, redisUp, now, process, total_queries, cache_hits,
                   cache_misses, recent_queries, nOps, getCalls, appends,
                   lastSet>>

\* log_error: self.total_errors += 1; self.error_logger.error(log_msg)
LeRead(t) ==
    /\ th[t].pc = "le_read"
    /\ th' = [th EXCEPT ![t].tmp = total_errors, ![t].pc = "le_write"]
    /\ UNCHANGED <<redis, redisUp, now, process, logger, nOps, history>>

LeWrite(t) ==
    /\ th[t].pc = "le_write"
    /\ total_errors' = th[t].tmp + 1
    /\ th' = [th EXCEPT ![t].pc = "ret"]
    /\ UNCHANGED <<redis, redisUp, now, process, total_queries, cache_hits,
                   cache_misses, recent_queries, nOps, history>>

\* a / b: raises ZeroDivisionError when b is 0
Divide(a, b) == [raised |-> b = 0, num |-> a, den |-> b]
NotRaised(q) == [raised |-> FALSE, num |-> q.num, den |-> q.den]
Quotient(d) == [num |-> d.num, den |-> d.den]

RECURSIVE SumSeq(_)
SumSeq(seq) == IF seq = <<>> THEN 0 ELSE seq[1] + SumSeq(Tail(seq))
\* min(seq), max(seq) of a non-empty list
MinSeq(seq) == CHOOSE x \in {seq[i] : i \in 1..Len(seq)} : \A i \in 1..Len(seq) : x <= seq[i]
MaxSeq(seq) == CHOOSE x \in {seq[i] : i \in 1..Len(seq)} : \A i \in 1..Len(seq) : x >= seq[i]

\* [q['response_time'] for q in recent_list if q['success']]
ResponseTimes(recent_list) ==
    LET ok == SelectSeq(recent_list, LAMBDA q : q.success)
    IN  [i \in 1..Len(ok) |-> ok[i].response_time]

\* an average taken without looking whether there is anything to average
AvgResponseTimeUnguarded(response_times) ==
    Divide(SumSeq(response_times), Len(response_times))

\* sum(response_times) / len(response_times) if response_times else 0
AvgResponseTime(response_times) ==
    IF response_times # <<>>
    THEN Divide(SumSeq(response_times), Len(response_times))
    ELSE NotRaised(Zero)

\* sum(q['sources_count'] for q in recent_list) / len(recent_list)
AvgSources(recent_list) ==
    Divide(SumSeq([i \in 1..Len(recent_list) |-> recent_list[i].sources_count]),
           Len(recent_list))

\* where get_statistics returns to: export_metrics_summary goes on with
\* popular = self.get_popular_queries(top_n=5)
StatisticsReturnPc(f) == IF f.op = "export_metrics_summary" THEN "ex_popular" ELSE "ret"

\* get_statistics: `if not self.recent_queries: return {...}`, else
\* recent_list = list(self.recent_queries) and the averages over it
GsList(t) ==
    LET recent_list == recent_queries
        f == IF th[t].op = "export_metrics_summary"
             THEN [th[t] EXCEPT !.bufferSeen.stats = recent_list,
                                !.totalSeen = total_queries]
             ELSE th[t]
        response_times == ResponseTimes(recent_list)
        avg == AvgResponseTime(response_times)
        src == AvgSources(recent_list)
    IN  /\ f.pc = "gs_list"
        /\ th' = [th EXCEPT ![t] =
                    IF recent_list = <<>>
                    THEN [f EXCEPT !.pc = StatisticsReturnPc(f),
                                   !.result.kind = "stats",
                                   !.result.stats.keys = {"total_queries", "message"},
                                   !.result.stats.total_queries = 0]
                    ELSE IF avg.raised \/ src.raised
                    THEN [f EXCEPT !.pc = "raised",
                                   !.result.stats.recent_queries_count = Len(recent_list),
                                   !.result.stats.response_times = response_times]
                    ELSE [f EXCEPT !.pc = "gs_hit_guard",
                                   !.result.stats.recent_queries_count = Len(recent_list),
                                   !.result.stats.response_times = response_times,
                                   !.result.stats.avg_response_time = Quotient(avg),
                                   !.result.stats.avg_sources_per_query = Quotient(src)]]
        /\ UNCHANGED <<redis, redisUp, now, process, logger, nOps, history>>

\* (... ) if self.total_queries > 0 else 0: the condition
GsGuard(t, at, next) ==
    /\ th[t].pc = at
    /\ th' = [th EXCEPT ![t].tmp = IF total_queries > 0 THEN 1 ELSE 0, ![t].pc = next]
    /\ UNCHANGED <<redis, redisUp, now, process, logger, nOps, history>>

GsHitGuard(t) == GsGuard(t, "gs_hit_guard", "gs_hit_rate")

\* a hit rate taken from the records still in the buffer
CacheHitRateOfBuffer(hits_, total) ==
    Divide(Cardinality({i \in 1..Len(recent_queries) : recent_queries[i].cached}) * 100,
           Len(recent_queries))

\* self.cache_hits / self.total_queries * 100
CacheHitRate(hits_, total) == Divide(hits_ * 100, total)

\* cache_hit_rate = (self.cache_hits / self.total_queries * 100) if ... else 0
GsHitRate(t) ==
    LET f == th[t]
        rate == IF f.tmp = 1 THEN CacheHitRate(cache_hits, total_queries)
                ELSE NotRaised(Zero)
    IN  /\ f.pc = "gs_hit_rate"
        /\ th' = [th EXCEPT ![t] =
                    IF rate.raised THEN [f EXCEPT !.pc = "raised"]
                    ELSE [f EXCEPT !.pc = "gs_err_guard",
                                   !.result.stats.cache_hit_rate_percent = Quotient(rate)]]
        /\ UNCHANGED <<redis, redisUp, now, process, logger, nOps, history>>

GsErrGuard(t) == GsGuard(t, "gs_err_guard", "gs_err_rate")

\* error_rate = (self.total_errors / self.total_queries * 100) if ... else 0
GsErrRate(t) ==
    LET f == th[t]
        rate == IF f.tmp = 1 THEN Divide(total_errors * 100, total_queries)
                ELSE NotRaised(Zero)
    IN  /\ f.pc = "gs_err_rate"
        /\ th' = [th EXCEPT ![t] =
                    IF rate.raised THEN [f EXCEPT !.pc = "raised"]
                    ELSE [f EXCEPT !.pc = "gs_return",
                                   !.result.stats.error_rate_percent = Quotient(rate)]]
        /\ UNCHANGED <<redis, redisUp, now, process, logger, nOps, history>>

\* return {"total_queries": self.total_queries, ...}
GsReturn(t) ==
    LET f == th[t]
        response_times == f.result.stats.response_times
    IN  /\ f.pc = "gs_return"
        /\ th' = [th EXCEPT ![t] =
                    [f EXCEPT !.pc = StatisticsReturnPc(f),
                              !.result.kind = "stats",
                              !.result.stats.keys =
                                  {"total_queries", "total_errors", "error_rate_percent",
                                   "cache_hits", "cache_misses", "cache_hit_rate_percent",
                                   "avg_response_time", "avg_sources_per_query",
                                   "recent_queries_count", "fastest_response",
                                   "slowest_response"},
                              !.result.stats.total_queries = total_queries,
                              !.result.stats.total_errors = total_errors,
                              !.result.stats.cache_hits = cache_hits,
                              !.result.stats.cache_misses = cache_misses,
                              !.result.stats.fastest_response =
                                  IF response_times # <<>> THEN MinSeq(response_times) ELSE 0,
                              !.result.stats.slowest_response =
                                  IF response_times # <<>> THEN MaxSeq(response_times) ELSE 0]]
        /\ UNCHANGED <<redis, redisUp, now, process, logger, nOps, history>>

GetStatisticsStep(t) ==
    \/ GsList(t) \/ GsHitGuard(t) \/ GsHitRate(t) \/ GsErrGuard(t) \/ GsErrRate(t)
    \/ GsReturn(t)

\* logger.get_statistics() called on the logger itself
GetStatisticsBegin(t) ==
    /\ CanBegin(t)
    /\ nOps < MaxLogCalls
    /\ nOps' = nOps + 1
    /\ th' = [th EXCEPT ![t] = [Idle EXCEPT !.op = "get_statistics", !.pc = "gs_list"]]
    /\ UNCHANGED <<redis, redisUp, now, process, logger, history>>

LogStep(t) ==
    \/ LqTotalRead(t) \/ LqTotalWrite(t) \/ LqCacheRead(t) \/ LqCacheWrite(t)
    \/ LqAppend(t) \/ LqErrorRead(t) \/ LqErrorWrite(t)
    \/ LeRead(t) \/ LeWrite(t)

\* logger.log_query(query, response, success, error) and
\* logger.log_error(...) called on the logger itself
LogQueryBegin(t, q, response, success, error) ==
    /\ CanBegin(t)
    /\ nOps < MaxLogCalls
    /\ nOps' = nOps + 1
    /\ th' = [th EXCEPT ![t] =
                [Idle EXCEPT !.op = "log_query", !.query = q,
                             !.response = response, !.success = success,
                             !.error = error, !.pc = "lq_total_read",
                             !.after = "ret", !.snap = Snapshot,
                             !.prev = Summary(th[t])]]
    /\ UNCHANGED <<redis, redisUp, now, process, logger, history>>

LogErrorBegin(t) ==
    /\ CanBegin(t)
    /\ nOps < MaxLogCalls
    /\ nOps' = nOps + 1
    /\ th' = [th EXCEPT ![t] =
                [Idle EXCEPT !.op = "log_error", !.pc = "le_read",
                             !.snap = Snapshot, !.prev = Summary(th[t])]]
    /\ UNCHANGED <<redis, redisUp, now, process, logger, history>>

(***************************************************************************)
(* ReactDotChatbot.ask (src/chatbot.py 145-264).  log_cache_operation      *)
(* only writes a line to the metrics log file.                             *)
(***************************************************************************)
ErrorPrefix == " Error processing your question: "

\* {**cached_result, "cached": True, "response_time": ..., "cache_latency": ...}
HitResponse(f) ==
    [keys |-> f.cached_result.keys \cup {"cached", "response_time", "cache_latency"},
     answer |-> f.cached_result.answer, sources |-> f.cached_result.sources,
     cached |-> TRUE, response_time |-> now - f.start_time, error |-> ""]

\* {**response, "cached": False, "response_time": ..., "retrieval_time": ...}
FinalResponse(f) ==
    [keys |-> f.payload.keys \cup {"cached", "response_time", "retrieval_time"},
     answer |-> f.payload.answer, sources |-> f.payload.sources,
     cached |-> FALSE, response_time |-> now - f.start_time, error |-> ""]

\* {"answer": f" Error ...: {str(e)}", "sources": [], "cached": False,
\*  "response_time": ..., "error": str(e)}
ErrorResponse(f, text) ==
    [keys |-> {"answer", "sources", "cached", "response_time", "error"},
     answer |-> ErrorPrefix \o text, sources |-> EmptyBag,
     cached |-> FALSE, response_time |-> now - f.start_time, error |-> text]

\* start_time = time.time()
\* if self.use_cache and self.cache and not bypass_cache: self.cache.get(query)
AskBegin(t, q, bypass_cache) ==
    /\ \A u \in Threads : Free(u)
    /\ CanBegin(t)
    /\ nOps < MaxAsks
    /\ nOps' = nOps + 1
    /\ th' = [th EXCEPT ![t] =
                [Idle EXCEPT !.op = "ask", !.query = q,
                             !.bypass_cache = bypass_cache,
                             !.start_time = now, !.snap = Snapshot,
                             !.prev = Summary(th[t]),
                             !.pc = IF use_cache /\ ~bypass_cache
                                    THEN "get_cmd" ELSE "ask_pipeline"]]
    /\ UNCHANGED <<redis, redisUp, now, process, logger, history>>

\* if cached_result: ... self.logger.log_query(query, response, success=True)
AskGot(t) ==
    LET f == th[t]
    IN  /\ f.pc = "ask_got"
        /\ th' = [th EXCEPT ![t] =
                    IF Truthy(f.cached_result)
                    THEN [f EXCEPT !.response = HitResponse(f),
                                   !.success = TRUE, !.error = None,
                                   !.pc = "lq_total_read", !.after = "ret"]
                    ELSE [f EXCEPT !.pc = "ask_pipeline"]]
        /\ UNCHANGED <<redis, redisUp, now, process, logger, nOps, history>>

\* a chatbot that leaves the cache alone when it was told to bypass it
CachesResultUnlessBypassed(f) == use_cache /\ ~f.bypass_cache

\* `if self.use_cache and self.cache:` before self.cache.set(query, response)
CachesResult(f) == use_cache

\* try: result = self.retriever_chain.invoke({'input': query}) ...
\*      if self.use_cache and self.cache: self.cache.set(query, response)
\* except Exception as e: ... self.logger.log_query(query, error_response,
\*      success=False, error=str(e)); self.logger.log_error(...)
AskPipeline(t, outcome) ==
    LET f == th[t]
        g == [f EXCEPT !.pipeline = outcome, !.pipelineCalls = @ + 1,
                       !.pipelineInput = f.query]
    IN  /\ f.pc = "ask_pipeline"
        /\ th' = [th EXCEPT ![t] =
                    IF outcome.ok
                    THEN [g EXCEPT !.payload = Json(outcome.answer,
                                                    DedupSources(outcome.context)),
                                   !.pc = IF CachesResult(f)
                                          THEN "set_cmd" ELSE "ask_final"]
                    ELSE [g EXCEPT !.response = ErrorResponse(f, outcome.text),
                                   !.success = FALSE,
                                   !.error = Some(outcome.text),
                                   !.pc = "lq_total_read",
                                   !.after = "le_read"]]
        /\ UNCHANGED <<redis, redisUp, now, process, logger, nOps, history>>

\* final_response = {...}; self.logger.log_query(query, final_response, success=True)
AskFinal(t) ==
    LET f == th[t]
    IN  /\ f.pc = "ask_final"
        /\ th' = [th EXCEPT ![t] =
                    [f EXCEPT !.response = FinalResponse(f),
                              !.success = TRUE, !.error = None,
                              !.pc = "lq_total_read", !.after = "ret"]]
        /\ UNCHANGED <<redis, redisUp, now, process, logger, nOps, history>>

AskStep(t) ==
    \/ AskGot(t)
    \/ \E outcome \in PipelineOutcomes : AskPipeline(t, outcome)
    \/ AskFinal(t)

\* one chatbot answering one question at a time
Next ==
    \/ \E t \in Threads, q \in Questions, b \in BOOLEAN : AskBegin(t, q, b)
    \/ \E t \in Threads : AskStep(t) \/ CacheStep(t) \/ LogStep(t)
    \/ Env

Spec == Init /\ [][Next]_vars

\* The chatbot asked one question again and again, with the scheduling the
\* code has: a thread that can take a step of its own (a Redis command, which
\* the server answers or fails; a step of the logger; building a response)
\* takes it.  self.retriever_chain.invoke(...) is given no timeout and ask
\* takes none from its caller: nothing makes the pipeline return or raise,
\* so its completion is left to the pipeline.
LiveAskBegin(t) == AskBegin(t, QJs, FALSE)

NextLive ==
    \/ \E t \in Threads : LiveAskBegin(t)
    \/ \E t \in Threads : AskStep(t) \/ CacheStep(t) \/ LogStep(t)
    \/ Env

OwnStep ==
    \E t \in Threads : AskGot(t) \/ AskFinal(t) \/ CacheStep(t) \/ LogStep(t)

SpecLive == Init /\ [][NextLive]_vars /\ WF_vars(OwnStep)

\* Two chat sessions that ask their questions, each in its own thread:
\* the sessions share the Redis database and the process-wide logger
\* (get_logger() hands every chatbot the one CodeSearchLogger).
\* the successful pipeline calls made so far (history): the question and
\* the {answer, sources} built from the result
OwnResult(f) ==
    IF f.op = "ask" /\ f.pipeline.ok
    THEN {[query |-> f.query, answer |-> f.payload.answer,
           sources |-> f.payload.sources]}
    ELSE {}
FreshResults == UNION {th[u].known \cup OwnResult(th[u]) : u \in Threads}

SessionAskBegin(t, q) ==
    /\ CanBegin(t)
    /\ nOps < MaxAsks
    /\ nOps' = nOps + 1
    /\ th' = [th EXCEPT ![t] =
                [Idle EXCEPT !.op = "ask", !.query = q,
                             !.start_time = now, !.snap = Snapshot,
                             !.prev = Summary(th[t]),
                             !.known = FreshResults,
                             !.pc = IF use_cache THEN "get_cmd" ELSE "ask_pipeline"]]
    /\ UNCHANGED <<redis, redisUp, now, process, logger, history>>

\* the server stays up and the clock stands still while the two sessions
\* are answered, so RedisCache.get never reaches its except handler
NextSessions ==
    \/ \E t \in Threads, q \in Questions : SessionAskBegin(t, q)
    \/ \E t \in Threads : AskStep(t) \/ LogStep(t)
    \/ \E t \in Threads : GetCmd(t) \/ GetHit(t) \/ GetMiss(t) \/ SetCmd(t)

SpecSessions == InitCache /\ [][NextSessions]_vars

(***************************************************************************)
(* ReactDotChatbot.__init__ (src/chatbot.py 115-141) and the chatbot it    *)
(* leaves: ask, get_cache_stats, clear_cache (src/chatbot.py 266-287).     *)
(***************************************************************************)
\* before ReactDotChatbot(use_cache=True): self.cache = None; the server is
\* reachable or not
InitChatbot ==
    /\ entries = [k \in CacheKeys |-> NoEntry]
    /\ hits = 0
    /\ misses = 0
    /\ redisUp \in BOOLEAN
    /\ _logger_instance = 1
    /\ loggers = 1
    /\ now = 0
    /\ use_cache = FALSE
    /\ total_queries = 0
    /\ total_errors = 0
    /\ cache_hits = 0
    /\ cache_misses = 0
    /\ recent_queries = <<>>
    /\ th = [t \in Threads |-> Idle]
    /\ nOps = 0
    /\ getCalls = 0
    /\ lqCalls = 0
    /\ appends = 0
    /\ lastSet = [q \in Questions |-> NoWrite]

\* if use_cache: try: self.cache = RedisCache(host=..., port=..., ttl_hours=24)
ChatbotInitBegin(t) ==
    /\ CanBegin(t)
    /\ nOps = 0
    /\ nOps' = 1
    /\ th' = [th EXCEPT ![t] = [Idle EXCEPT !.op = "__init__", !.pc = "init_ping"]]
    /\ UNCHANGED <<redis, redisUp, now, process, logger, history>>

\* RedisCache.__init__: self.redis_client.ping(); except redis.ConnectionError:
\* raise, which __init__ of the chatbot catches: self.cache = None;
\* otherwise health = self.cache.health_check(): start = time.time()
InitPing(t) ==
    LET f == th[t]
    IN  /\ f.pc = "init_ping"
        /\ th' = [th EXCEPT ![t] =
                    IF redisUp
                    THEN [f EXCEPT !.cmds = @ + 1, !.pc = "health_ping",
                                   !.start_time = now]
                    ELSE [f EXCEPT !.cmds = @ + 1, !.faults = @ + 1, !.pc = "ret"]]
        /\ UNCHANGED <<redis, redisUp, now, process, logger, nOps, history>>

\* a constructor that keeps the cache whatever its health check said
CacheKeptWhenUnhealthy(connected) == TRUE

\* if health['connected']: ... else: ...; self.cache = None
CacheKept(connected) == connected

InitHealth(t) ==
    LET f == th[t]
    IN  /\ f.pc = "init_health"
        /\ use_cache' = CacheKept(f.result.connected)
        /\ th' = [th EXCEPT ![t].pc = "ret"]
        /\ UNCHANGED <<redis, redisUp, now, _logger_instance, loggers, logger,
                       nOps, history>>

\* bot.ask(query) on the chatbot that was built
BuiltAskBegin(t) ==
    /\ \A u \in Threads : Free(u)
    /\ CanBegin(t)
    /\ nOps >= 1 /\ nOps < MaxChatbotCalls
    /\ nOps' = nOps + 1
    /\ th' = [th EXCEPT ![t] =
                [Idle EXCEPT !.op = "ask", !.query = QJs,
                             !.start_time = now, !.snap = Snapshot,
                             !.prev = Summary(th[t]),
                             !.pc = IF use_cache THEN "get_cmd" ELSE "ask_pipeline"]]
    /\ UNCHANGED <<redis, redisUp, now, process, logger, history>>

\* the frame of a call on a chatbot without a cache:
\* return {"error": "Cache not enabled"}
CacheNotEnabled(f) ==
    [f EXCEPT !.pc = "ret", !.result.kind = "error",
              !.result.error = "Cache not enabled"]

\* get_cache_stats: if self.cache: return self.cache.get_stats()
GetCacheStatsBegin(t) ==
    LET f == [Idle EXCEPT !.op = "get_cache_stats", !.pc = "stats_hits",
                          !.prev = Summary(th[t])]
    IN  /\ \A u \in Threads : Free(u)
        /\ CanBegin(t)
        /\ nOps >= 1 /\ nOps < MaxChatbotCalls
        /\ nOps' = nOps + 1
        /\ th' = [th EXCEPT ![t] = IF use_cache THEN f ELSE CacheNotEnabled(f)]
        /\ UNCHANGED <<redis, redisUp, now, process, logger, history>>

\* clear_cache: if self.cache: return self.cache.clear()
ClearCacheBegin(t) ==
    LET f == [Idle EXCEPT !.op = "clear_cache", !.pc = "clear_keys",
                          !.prev = Summary(th[t])]
    IN  /\ \A u \in Threads : Free(u)
        /\ CanBegin(t)
        /\ nOps >= 1 /\ nOps < MaxChatbotCalls
        /\ nOps' = nOps + 1
        /\ th' = [th EXCEPT ![t] = IF use_cache THEN f ELSE CacheNotEnabled(f)]
        /\ UNCHANGED <<redis, redisUp, now, process, logger, history>>

\* a chatbot is built and then used, one call after another
NextChatbot ==
    \/ \E t \in Threads : ChatbotInitBegin(t)
    \/ \E t \in Threads : InitPing(t) \/ HealthPing(t) \/ InitHealth(t)
    \/ \E t \in Threads : BuiltAskBegin(t)
    \/ \E t \in Threads : AskStep(t) \/ CacheStep(t) \/ LogStep(t)
    \/ \E t \in Threads : GetCacheStatsBegin(t)
    \/ \E t \in Threads : GetStatsStep(t)
    \/ \E t \in Threads : ClearCacheBegin(t)
    \/ \E t \in Threads : ClearStep(t)
    \/ Env

SpecChatbot == InitChatbot /\ [][NextChatbot]_vars

\* what log_query is given when it is called on the logger itself: a cache
\* hit, a fresh answer, a failure with and without an error text
LogInputs ==
    {[response |-> [keys |-> {"answer", "sources", "cached", "response_time"},
                    answer |-> "JSX is", sources |-> SetToBag({"doc1"}), cached |-> c,
                    response_time |-> 0, error |-> ""],
      success |-> TRUE, error |-> None] : c \in BOOLEAN}
    \cup
    {[response |-> [keys |-> {"answer", "sources", "cached", "response_time", "error"},
                    answer |-> ErrorPrefix \o e, sources |-> EmptyBag, cached |-> FALSE,
                    response_time |-> 0, error |-> e],
      success |-> FALSE, error |-> Some(e)] : e \in ErrorTexts}

\* the logger used by concurrent callers
NextLog ==
    \/ \E t \in Threads, i \in LogInputs :
          LogQueryBegin(t, QJs, i.response, i.success, i.error)
    \/ \E t \in Threads : LogErrorBegin(t)
    \/ \E t \in Threads : LogStep(t)
    \/ \E t \in Threads : GetStatisticsBegin(t)
    \/ \E t \in Threads : GetStatisticsStep(t)

SpecLog == InitCache /\ [][NextLog]_vars

(***************************************************************************)
(* get_logger (src/logger.py 359-367), called by every                     *)
(* ReactDotChatbot.__init__ (src/chatbot.py 121); the sessions of the app  *)
(* build their chatbots in threads of one process.                         *)
(***************************************************************************)
\* the process before anything has asked for the logger:
\* _logger_instance = None
InitLoggers ==
    /\ entries = [k \in CacheKeys |-> NoEntry]
    /\ hits = 0
    /\ misses = 0
    /\ redisUp = TRUE
    /\ _logger_instance = 0
    /\ loggers = 0
    /\ now = 0
    /\ use_cache = TRUE
    /\ total_queries = 0
    /\ total_errors = 0
    /\ cache_hits = 0
    /\ cache_misses = 0
    /\ recent_queries = <<>>
    /\ th = [t \in Threads |-> Idle]
    /\ nOps = 0
    /\ getCalls = 0
    /\ lqCalls = 0
    /\ appends = 0
    /\ lastSet = [q \in Questions |-> NoWrite]

\* self.logger = get_logger()
GetLoggerBegin(t) ==
    /\ CanBegin(t)
    /\ nOps < MaxLoggerCalls
    /\ nOps' = nOps + 1
    /\ th' = [th EXCEPT ![t] =
                [Idle EXCEPT !.op = "get_logger", !.pc = "gl_check",
                             !.prev = Summary(th[t]),
                             !.tmp = IF th[t].op = "get_logger"
                                     THEN th[t].result.instance ELSE 0]]
    /\ UNCHANGED <<redis, redisUp, now, process, logger, history>>

\* if _logger_instance is None:
GlCheck(t) ==
    /\ th[t].pc = "gl_check"
    /\ th' = [th EXCEPT ![t].pc = IF _logger_instance = 0 THEN "gl_create" ELSE "gl_return"]
    /\ UNCHANGED <<redis, redisUp, now, process, logger, nOps, history>>

\* _logger_instance = CodeSearchLogger()
GlCreate(t) ==
    /\ th[t].pc = "gl_create"
    /\ loggers' = loggers + 1
    /\ _logger_instance' = loggers + 1
    /\ th' = [th EXCEPT ![t].pc = "gl_return"]
    /\ UNCHANGED <<redis, redisUp, now, use_cache, logger, nOps, history>>

\* return _logger_instance
GlReturn(t) ==
    /\ th[t].pc = "gl_return"
    /\ th' = [th EXCEPT ![t].pc = "ret", ![t].result.kind = "logger",
                         ![t].result.instance = _logger_instance]
    /\ UNCHANGED <<redis, redisUp, now, process, logger, nOps, history>>

NextLoggers ==
    \/ \E t \in Threads : GetLoggerBegin(t)
    \/ \E t \in Threads : GlCheck(t) \/ GlCreate(t) \/ GlReturn(t)

SpecLoggers == InitLoggers /\ [][NextLoggers]_vars

(***************************************************************************)
(* The key normalizer (src/redis_cache.py 78-98) applied to two texts.     *)
(***************************************************************************)
\* each thread makes one call, the first thread first and the second one
\* the same call on another text
CanCallOnce(t, op) ==
    /\ th[t].op = "none"
    /\ t = "t1" \/ th["t1"].op = op

NormalizeCall(t, s) ==
    /\ CanCallOnce(t, "_normalize_query")
    /\ th' = [th EXCEPT ![t] =
                [Idle EXCEPT !.op = "_normalize_query", !.query = s, !.pc = "ret",
                             !.result = [NoResult EXCEPT !.kind = "text",
                                                         !.text = _normalize_query(s)]]]
    /\ UNCHANGED <<redis, redisUp, now, process, logger, nOps, history>>

GenerateKeyCall(t, s) ==
    /\ CanCallOnce(t, "_generate_cache_key")
    /\ th' = [th EXCEPT ![t] =
                [Idle EXCEPT !.op = "_generate_cache_key", !.query = s, !.pc = "ret",
                             !.result = [NoResult EXCEPT !.kind = "key",
                                                         !.key = _generate_cache_key(s)]]]
    /\ UNCHANGED <<redis, redisUp, now, process, logger, nOps, history>>

NextKey ==
    \/ \E t \in Threads, s \in Texts : NormalizeCall(t, s)
    \/ \E t \in Threads, s \in Texts : GenerateKeyCall(t, s)

SpecKey == InitCache /\ [][NextKey]_vars

(***************************************************************************)
(* The logger used by one caller, call after call (the __main__ of         *)
(* src/logger.py 371-400).                                                 *)
(***************************************************************************)
\* the frame of log_query(q, response, success, error) as it begins
LogQueryFrame(t, q, response, success, error) ==
    [Idle EXCEPT !.op = "log_query", !.query = q, !.response = response,
                 !.success = success, !.error = error,
                 !.pc = "lq_total_read", !.after = "ret",
                 !.snap = Snapshot, !.prev = Summary(th[t])]

\* the n-th call of a long run: the questions alternate, every seventh call
\* reports a failure, and the response time is the number of the call
RingQuery(n) == IF n % 2 = 1 THEN QJs ELSE QInner
RingSuccess(n) == n % 7 # 0
RingError(n) == IF RingSuccess(n) THEN None ELSE Some("boom")
RingResponse(n) ==
    IF RingSuccess(n)
    THEN [keys |-> {"answer", "sources", "cached", "response_time"},
          answer |-> "JSX is", sources |-> SetToBag({"doc1"}), cached |-> n % 3 = 0,
          response_time |-> n, error |-> ""]
    ELSE [keys |-> {"answer", "sources", "cached", "response_time", "error"},
          answer |-> ErrorPrefix \o "boom", sources |-> EmptyBag, cached |-> FALSE,
          response_time |-> n, error |-> "boom"]

\* for query, response in test_queries: logger.log_query(query, response, ...)
RingQueryBegin ==
    /\ \A u \in Threads : Free(u)
    /\ nOps < MaxRingCalls
    /\ nOps' = nOps + 1
    /\ th' = [th EXCEPT !["t1"] =
                LogQueryFrame("t1", RingQuery(nOps + 1), RingResponse(nOps + 1),
                              RingSuccess(nOps + 1), RingError(nOps + 1))]
    /\ UNCHANGED <<redis, redisUp, now, process, logger, history>>

LogQueryStep(t) ==
    \/ LqTotalRead(t) \/ LqTotalWrite(t) \/ LqCacheRead(t) \/ LqCacheWrite(t)
    \/ LqAppend(t) \/ LqErrorRead(t) \/ LqErrorWrite(t)

\* logger.print_dashboard() after any of the calls: stats = self.get_statistics()
RingStatisticsBegin ==
    /\ \A u \in Threads : Free(u)
    /\ th["t1"].op # "get_statistics"
    /\ th' = [th EXCEPT !["t1"] = [Idle EXCEPT !.op = "get_statistics", !.pc = "gs_list"]]
    /\ UNCHANGED <<redis, redisUp, now, process, logger, nOps, history>>

NextRing ==
    \/ RingQueryBegin \/ LogQueryStep("t1")
    \/ RingStatisticsBegin \/ GetStatisticsStep("t1")

SpecRing == InitCache /\ [][NextRing]_vars

(***************************************************************************)
(* The analytics of the logger (src/logger.py 253-301), read by the one    *)
(* caller that records the queries.  Response times are in tenths of a     *)
(* second.                                                                 *)
(***************************************************************************)
Front(seq) == SubSeq(seq, 1, Len(seq) - 1)
Range(seq) == {seq[i] : i \in 1..Len(seq)}

\* seq[:n] for n >= 0
Take(seq, n) == SubSeq(seq, 1, IF n < Len(seq) THEN n ELSE Len(seq))

\* the keys of Counter(queries), in the order they were first seen
RECURSIVE CounterKeys(_)
CounterKeys(queries) ==
    IF queries = <<>> THEN <<>>
    ELSE LET seen == CounterKeys(Front(queries))
             q == queries[Len(queries)]
         IN  IF q \in Range(seen) THEN seen ELSE Append(seen, q)

\* Counter(queries)[q]
CounterCount(queries, q) == Cardinality({i \in 1..Len(queries) : queries[i] = q})

\* an insertion that puts x before the elements of its own sort key
RECURSIVE InsertDescBeforeEqual(_, _)
InsertDescBeforeEqual(sorted, x) ==
    IF sorted = <<>> THEN <<x>>
    ELSE IF Head(sorted).sortkey > x.sortkey
         THEN <<Head(sorted)>> \o InsertDescBeforeEqual(Tail(sorted), x)
         ELSE <<x>> \o sorted

\* sorted(..., reverse=True) and list.sort(reverse=True) are stable: an
\* element goes after the elements of a greater or equal sort key that
\* came before it
RECURSIVE InsertDesc(_, _)
InsertDesc(sorted, x) ==
    IF sorted = <<>> THEN <<x>>
    ELSE IF Head(sorted).sortkey >= x.sortkey
         THEN <<Head(sorted)>> \o InsertDesc(Tail(sorted), x)
         ELSE <<x>> \o sorted

RECURSIVE SortDesc(_)
SortDesc(seq) ==
    IF seq = <<>> THEN <<>> ELSE InsertDesc(SortDesc(Front(seq)), seq[Len(seq)])

\* Counter(queries).most_common(top_n), as [{"query": q, "count": count}]
MostCommon(queries, top_n) ==
    LET keys == CounterKeys(queries)
        items == [i \in 1..Len(keys) |->
                     [sortkey |-> CounterCount(queries, keys[i]),
                      item |-> [query |-> keys[i],
                                count |-> CounterCount(queries, keys[i])]]]
        popular == Take(SortDesc(items), top_n)
    IN  [i \in 1..Len(popular) |-> popular[i].item]

\* a filter that keeps the records at the threshold too
IsSlowOrAtThreshold(q, threshold_seconds) == q.response_time >= threshold_seconds

\* if q['response_time'] > threshold_seconds
IsSlow(q, threshold_seconds) == q.response_time > threshold_seconds

\* {"query": q['full_query'], "response_time": ..., "timestamp": ...}
SlowItem(q) ==
    [query |-> q.full_query, response_time |-> q.response_time,
     timestamp |-> q.timestamp]

\* the body of get_slow_queries on recent_list
SlowQueries(recent_list, threshold_seconds, top_n) ==
    LET slow == SelectSeq(recent_list, LAMBDA q : IsSlow(q, threshold_seconds))
        items == [i \in 1..Len(slow) |->
                     [sortkey |-> slow[i].response_time, item |-> SlowItem(slow[i])]]
        sorted == Take(SortDesc(items), top_n)
    IN  [i \in 1..Len(sorted) |-> sorted[i].item]

\* logger.get_popular_queries(top_n)
GetPopularQueries(t, top_n) ==
    /\ \A u \in Threads : Free(u)
    /\ t = "t1"
    /\ th' = [th EXCEPT ![t] =
                [Idle EXCEPT !.op = "get_popular_queries", !.pc = "ret",
                             !.top_n = top_n,
                             !.result =
                                 [NoResult EXCEPT
                                     !.kind = "list",
                                     !.items = MostCommon(
                                         [i \in 1..Len(recent_queries) |->
                                             recent_queries[i].full_query],
                                         top_n)]]]
    /\ UNCHANGED <<redis, redisUp, now, process, logger, nOps, history>>

\* logger.get_slow_queries(threshold_seconds, top_n)
GetSlowQueries(t, threshold_seconds, top_n) ==
    /\ \A u \in Threads : Free(u)
    /\ t = "t1"
    /\ th' = [th EXCEPT ![t] =
                [Idle EXCEPT !.op = "get_slow_queries", !.pc = "ret",
                             !.top_n = top_n,
                             !.threshold_seconds = threshold_seconds,
                             !.result =
                                 [NoResult EXCEPT
                                     !.kind = "list",
                                     !.items = SlowQueries(recent_queries,
                                                           threshold_seconds, top_n)]]]
    /\ UNCHANGED <<redis, redisUp, now, process, logger, nOps, history>>

\* what the caller records: "Js" answered in 0.5 s from the cache and in
\* 6.0 s by the pipeline, "j s" in 1.0 s, "  jS " in 9.0 s, and "Js" failed
\* after 5.0 s
RecResponse(cached, response_time) ==
    [keys |-> {"answer", "sources", "cached", "response_time"},
     answer |-> "JSX is", sources |-> SetToBag({"doc1"}), cached |-> cached,
     response_time |-> response_time, error |-> ""]
RecInputs ==
    {[query |-> QJs, response |-> RecResponse(TRUE, 5), success |-> TRUE, error |-> None],
     [query |-> QJs, response |-> RecResponse(FALSE, 60), success |-> TRUE, error |-> None],
     [query |-> QInner, response |-> RecResponse(FALSE, 10), success |-> TRUE, error |-> None],
     [query |-> QJsVariant, response |-> RecResponse(FALSE, 90), success |-> TRUE, error |-> None],
     [query |-> QJs,
      response |-> [keys |-> {"answer", "sources", "cached", "response_time", "error"},
                    answer |-> ErrorPrefix \o "boom", sources |-> EmptyBag, cached |-> FALSE,
                    response_time |-> 50, error |-> "boom"],
      success |-> FALSE, error |-> Some("boom")]}
TopNs == {0, 1, 2, 10}
Thresholds == {10, 50}

RecQueryBegin(i) ==
    /\ \A u \in Threads : Free(u)
    /\ nOps < MaxRecCalls
    /\ nOps' = nOps + 1
    /\ th' = [th EXCEPT !["t1"] =
                [LogQueryFrame("t1", i.query, i.response, i.success, i.error)
                    EXCEPT !.prev = NoCall]]
    /\ UNCHANGED <<redis, redisUp, now, process, logger, history>>

NextRec ==
    \/ \E i \in RecInputs : RecQueryBegin(i)
    \/ LogQueryStep("t1")
    \/ \E n \in TopNs : GetPopularQueries("t1", n)
    \/ \E s \in Thresholds, n \in TopNs : GetSlowQueries("t1", s, n)

SpecRec == InitCache /\ [][NextRec]_vars

(***************************************************************************)
(* CodeSearchLogger.export_metrics_summary (src/logger.py 303-331) beside  *)
(* a caller of log_query.                                                  *)
(***************************************************************************)
\* stats = self.get_statistics(): the call begins
ExportBegin(t) ==
    /\ CanBegin(t)
    /\ \A u \in Threads : th[u].op # "export_metrics_summary"
    /\ th' = [th EXCEPT ![t] =
                [Idle EXCEPT !.op = "export_metrics_summary", !.pc = "gs_list"]]
    /\ UNCHANGED <<redis, redisUp, now, process, logger, nOps, history>>

\* popular = self.get_popular_queries(top_n=5)
ExportPopular(t) ==
    LET f == th[t]
    IN  /\ f.pc = "ex_popular"
        /\ th' = [th EXCEPT ![t] =
                    [f EXCEPT !.pc = "ex_slow",
                              !.bufferSeen.popular = recent_queries,
                              !.result.popular =
                                  MostCommon([i \in 1..Len(recent_queries) |->
                                                 recent_queries[i].full_query], 5)]]
        /\ UNCHANGED <<redis, redisUp, now, process, logger, nOps, history>>

\* slow = self.get_slow_queries(top_n=5), threshold_seconds = 5.0;
\* summary = {...}; return summary
ExportSlow(t) ==
    LET f == th[t]
    IN  /\ f.pc = "ex_slow"
        /\ th' = [th EXCEPT ![t] =
                    [f EXCEPT !.pc = "ret",
                              !.result.kind = "summary",
                              !.bufferSeen.slow = recent_queries,
                              !.result.slow = SlowQueries(recent_queries, 50, 5)]]
        /\ UNCHANGED <<redis, redisUp, now, process, logger, nOps, history>>

ExportStep(t) == GetStatisticsStep(t) \/ ExportPopular(t) \/ ExportSlow(t)

\* what the other callers record: "Js" answered in 6.0 s, and "Js" failed
\* after 5.0 s
ExportInputs == {i \in RecInputs : i.query = QJs /\ ~i.response.cached}

\* a query recorded by another caller of the logger
ExportQueryBegin(t, i) ==
    /\ CanBegin(t)
    /\ nOps < MaxLogCalls
    /\ nOps' = nOps + 1
    /\ th' = [th EXCEPT ![t] =
                [LogQueryFrame(t, i.query, i.response, i.success, i.error)
                    EXCEPT !.prev = NoCall]]
    /\ UNCHANGED <<redis, redisUp, now, process, logger, history>>

NextExport ==
    \/ \E t \in Threads, i \in ExportInputs : ExportQueryBegin(t, i)
    \/ \E t \in Threads : LogQueryStep(t)
    \/ \E t \in Threads : ExportBegin(t)
    \/ \E t \in Threads : ExportStep(t)

SpecExport == InitCache /\ [][NextExport]_vars

(***************************************************************************)
(* Properties.                                                             *)
(***************************************************************************)
\* thread t has finished a call of op: it returned, or an exception left it
Returned(t, op) == th[t].op = op /\ th[t].pc = "ret"
Escaped(t, op) == th[t].op = op /\ th[t].pc = "raised"
Ended(t, op) == Returned(t, op) \/ Escaped(t, op)

\* C1: no exception ever leaves ReactDotChatbot.ask, whatever the question,
\* bypass_cache, the cache store and the pipeline do: every ask that ends
\* has returned a response.
C1_AskNeverRaises ==
    \A t \in Threads :
        /\ ~Escaped(t, "ask")
        /\ Returned(t, "ask") => th[t].response.keys # {}

\* C2: RedisCache.get never raises: a get that met a backing-store error (a
\* failed command, a stored text that is not JSON) returns None and has
\* counted a miss.
C2_GetNeverRaises ==
    \A t \in Threads :
        /\ ~Escaped(t, "get")
        /\ (Returned(t, "get") /\ (th[t].faults > 0 \/ th[t].cached_data = Malformed))
              => th[t].cached_result = NoPayload /\ th[t].incrMisses >= 1

\* q1 and q2 are the same text up to letter case and surrounding whitespace
SameUpToCaseAndSpace(q1, q2) == Strip(Lower(q1)) = Strip(Lower(q2))

\* the two asks of the scenario, as the second one ends: the thread's
\* previous call was an ask that found no entry and returned the pipeline's
\* answer, and this one asks the same text before the TTL of that answer
\* has elapsed
C3_SecondAsk(t) ==
    LET f == th[t]
        p == f.prev
    IN  /\ Ended(t, "ask") /\ use_cache /\ ~f.bypass_cache
        /\ p.valid /\ p.op = "ask" /\ p.pc = "ret" /\ ~p.bypass_cache
        /\ ~p.entryLive /\ p.pipelineOk /\ ~p.cached
        /\ SameUpToCaseAndSpace(f.query, p.query)
        /\ f.readAt < p.setAt + ttl_hours

C3_FirstAsk(t) ==
    LET f == th[t]
    IN  /\ Ended(t, "ask") /\ use_cache /\ ~f.bypass_cache /\ ~f.entryLive
        /\ (f.pipelineCalls = 0 \/ f.pipeline.ok)

C3_FirstAnswer(t) ==
    LET f == th[t]
    IN  /\ Returned(t, "ask")
        /\ f.pipelineCalls = 1
        /\ ~f.response.cached
        /\ f.response.answer = f.pipeline.answer
        /\ f.response.sources = DedupSources(f.pipeline.context)

C3_SecondAnswer(t) ==
    LET f == th[t]
    IN  /\ Returned(t, "ask")
        /\ f.response.cached
        /\ f.response.answer = f.prev.answer
        /\ f.pipelineCalls = 0

C4_Expected(f) ==
    IF f.readAt < f.seenSet.at + ttl_hours THEN f.seenSet.data ELSE NoPayload

C5_ExpiredEntryMisses ==
    \A t \in Threads :
        (Ended(t, "get") /\ th[t].seenSet.valid
           /\ th[t].readAt >= th[t].seenSet.at + ttl_hours)
            => /\ Returned(t, "get")
               /\ th[t].cached_result = NoPayload
               /\ th[t].incrMisses = 1
               /\ th[t].incrHits = 0

\* C6: counter consistency of the cache store: once the get calls issued,
\* concurrently or not, have all ended, hits + misses has grown by their
\* number, each get having incremented exactly one of the two counters once.
C6_CountersMatchGets ==
    /\ \A t \in Threads : Ended(t, "get") => th[t].incrHits + th[t].incrMisses = 1
    /\ (\A t \in Threads : Free(t)) => hits + misses = getCalls

\* C7: no lost update in the logger: once the log_query calls made by
\* concurrent callers have all ended, total_queries, cache_hits +
\* cache_misses and the number of appended records have each grown by the
\* number of calls.
C7_NoLostUpdates ==
    (\A t \in Threads : Free(t))
        => /\ total_queries = lqCalls
           /\ cache_hits + cache_misses = lqCalls
           /\ appends = lqCalls
           /\ Len(recent_queries) = lqCalls

\* C8: pipeline failure: an ask whose pipeline call raised returns
\* cached=false, sources=[], a non-empty error indicator and an answer that
\* embeds the failure reason, and total_errors has grown.
C8_PipelineFailure ==
    \A t \in Threads :
        (Ended(t, "ask") /\ th[t].pipelineCalls = 1 /\ ~th[t].pipeline.ok)
            => /\ Returned(t, "ask")
               /\ ~th[t].response.cached
               /\ th[t].response.sources = EmptyBag
               /\ "error" \in th[t].response.keys
               /\ th[t].response.error # ""
               /\ th[t].response.answer = ErrorPrefix \o th[t].pipeline.text
               /\ total_errors > th[t].snap.total_errors

\* C9: degradation: an ask made while the commands of the cache store fail
\* returns a response, and the logger's counters change as for one cache
\* miss: total_queries + 1, cache_misses + 1, cache_hits unchanged.
C9_OutageKeepsCounters ==
    \A t \in Threads :
        (Ended(t, "ask") /\ th[t].cmds > 0 /\ th[t].faults = th[t].cmds)
            => /\ Returned(t, "ask")
               /\ total_queries = th[t].snap.total_queries + 1
               /\ cache_misses = th[t].snap.cache_misses + 1
               /\ cache_hits = th[t].snap.cache_hits

\* C10: a failed cache write never affects answer delivery: set returns
\* False on a failed write (and True on a served one) without raising, and
\* an ask whose pipeline call succeeded returns the pipeline's answer and
\* sources with cached=false whether the write was served or failed.
C10_FailedWriteHarmless ==
    \A t \in Threads :
        LET f == th[t]
        IN  /\ (f.op = "ask" /\ f.set_result # "none") => f.pc # "raised"
            /\ (f.op = "ask" /\ f.set_result = "false")
                  => f.faults >= 1
            /\ (f.op = "ask" /\ f.set_result = "true")
                  => lastSet[f.query] = [valid |-> TRUE, data |-> f.payload, at |-> f.setAt]
            /\ (Returned(t, "ask") /\ f.pipelineCalls = 1 /\ f.pipeline.ok)
                  => /\ f.response.keys =
                          {"answer", "sources", "cached", "response_time", "retrieval_time"}
                     /\ f.response.answer = f.pipeline.answer
                     /\ f.response.sources = DedupSources(f.pipeline.context)
                     /\ ~f.response.cached

\* an ask has returned the pipeline's answer after its cache write failed
C10_Witness ==
    \E t \in Threads :
        /\ Returned(t, "ask") /\ th[t].pipeline.ok
        /\ th[t].set_result = "false"
        /\ th[t].response.answer = th[t].pipeline.answer

\* the ask of frame f reached the cache decision point: it consulted the cache
ConsultedCache(f) == use_cache /\ ~f.bypass_cache

\* C11: cache_hits + cache_misses counts the recorded queries that reached
\* the cache decision point: an ask that has returned has added one to
\* cache_hits + cache_misses when it consulted the cache, and nothing when
\* it did not (bypass_cache=True, or the cache disabled).
C11_OnlyConsultedCounted ==
    \A t \in Threads :
        Returned(t, "ask")
            => (cache_hits + cache_misses)
                 - (th[t].snap.cache_hits + th[t].snap.cache_misses)
               = IF ConsultedCache(th[t]) THEN 1 ELSE 0

\* C12: the logger's counters are monotone: no step of any behaviour, the
\* calls of log_query and log_error being interleaved, makes total_queries,
\* total_errors, cache_hits or cache_misses smaller than it was.
C12_CountersMonotone ==
    [][/\ total_queries' >= total_queries
       /\ total_errors' >= total_errors
       /\ cache_hits' >= cache_hits
       /\ cache_misses' >= cache_misses]_vars

\* the record log_query appends for the n-th call of the long run
RingRecord(n) ==
    QueryRecord([query |-> RingQuery(n), response |-> RingResponse(n),
                 success |-> RingSuccess(n), error |-> RingError(n)])

\* C13: ring buffer: the buffer never holds more than 100 records, and after
\* k log_query calls made one after another it holds exactly the records of
\* the last min(k, 100) calls, unaltered and in recording order, while
\* total_queries = k.
C13_RingBuffer ==
    /\ Len(recent_queries) <= RecentMaxLen
    /\ (\A t \in Threads : Free(t))
          => LET k == lqCalls
                 n == IF k < RecentMaxLen THEN k ELSE RecentMaxLen
             IN  /\ Len(recent_queries) = n
                 /\ \A i \in 1..n : recent_queries[i] = RingRecord(k - n + i)
                 /\ total_queries = k

\* two more calls than the buffer holds have been recorded: the records of
\* the first two calls are gone
C13_Witness ==
    /\ \A t \in Threads : Free(t)
    /\ lqCalls = RecentMaxLen + 2
    /\ Len(recent_queries) = RecentMaxLen
    /\ recent_queries[1].response_time = 3
    /\ recent_queries[RecentMaxLen].response_time = RecentMaxLen + 2

\* the text without its leading and trailing whitespace characters
Core(q) ==
    LET inner == {i \in 1..Len(q) : q[i] \notin Whitespace}
    IN  IF inner = {} THEN <<>>
        ELSE SubSeq(q, CHOOSE i \in inner : \A j \in inner : i <= j,
                       CHOOSE i \in inner : \A j \in inner : i >= j)

\* the same character, or the two cases of one letter
SameLetter(a, b) == a = b \/ {a, b} \in {{"j", "J"}, {"s", "S"}}

\* q1 and q2 differ only in letter case or leading/trailing whitespace
DifferOnlyInCaseOrOuterSpace(q1, q2) ==
    /\ Len(Core(q1)) = Len(Core(q2))
    /\ \A i \in 1..Len(Core(q1)) : SameLetter(Core(q1)[i], Core(q2)[i])

\* C14: cache-key stability: the keys of two questions are equal when the
\* questions differ only in letter case or leading/trailing whitespace, and
\* differ otherwise (inner whitespace counted, the hash being
\* collision-free); every key is namespace + "query:" + hash.
C14_KeyStability ==
    \A t, u \in Threads :
        (Returned(t, "_generate_cache_key") /\ Returned(u, "_generate_cache_key"))
            => /\ (th[t].result.key = th[u].result.key)
                    <=> DifferOnlyInCaseOrOuterSpace(th[t].query, th[u].query)
               /\ Len(th[t].result.key) = 3
               /\ th[t].result.key[1] = key_prefix
               /\ th[t].result.key[2] = "query:"
               /\ th[t].result.key[3] \in Nat

\* two questions typed differently have got the same key
C14_Witness ==
    /\ Returned("t1", "_generate_cache_key") /\ Returned("t2", "_generate_cache_key")
    /\ th["t1"].query = <<" ", "J", "s">>
    /\ th["t2"].query = <<"j", "S", "\t">>
    /\ th["t1"].result.key = th["t2"].result.key

\* C15: normalization is idempotent: normalizing a normalized text gives
\* the same text.
C15_NormalizeIdempotent ==
    \A t \in Threads :
        Returned(t, "_normalize_query")
            => _normalize_query(th[t].result.text) = th[t].result.text

\* a text with capitals and two leading whitespace characters has been
\* normalized
C15_Witness ==
    \E t \in Threads :
        /\ Returned(t, "_normalize_query")
        /\ th[t].query = <<" ", "\t", "S">>
        /\ th[t].result.text = <<"s">>

\* the full question texts of the records in the buffer, in buffer order
BufferQueries == [i \in 1..Len(recent_queries) |-> recent_queries[i].full_query]

\* the number of records of question q in the buffer, and the place of the
\* first of them
Occurrences(q) == Cardinality({i \in 1..Len(BufferQueries) : BufferQueries[i] = q})
FirstSeenAt(q) ==
    CHOOSE i \in 1..Len(BufferQueries) :
        /\ BufferQueries[i] = q
        /\ \A j \in 1..(i - 1) : BufferQueries[j] # q

\* question a comes before question b in the popularity order: more
\* records, or as many and first seen earlier
MorePopular(a, b) ==
    \/ Occurrences(a) > Occurrences(b)
    \/ Occurrences(a) = Occurrences(b) /\ FirstSeenAt(a) < FirstSeenAt(b)

\* C16: get_popular_queries(top_n) groups the records of the buffer by
\* exact full question text and returns the first top_n (question, count)
\* pairs (all of them when there are fewer) by count descending, questions
\* of equal count in the order they were first seen; with one question
\* recorded 3 times and two others once each, top_n = 1 gives the 3-count
\* question alone.
C16_PopularQueries ==
    \A t \in Threads :
        Returned(t, "get_popular_queries")
            => LET res == th[t].result.items
                   asked == Range(BufferQueries)
                   listed == {res[i].query : i \in 1..Len(res)}
               IN  /\ Len(res) = IF th[t].top_n < Cardinality(asked)
                                 THEN th[t].top_n ELSE Cardinality(asked)
                   /\ listed \subseteq asked
                   /\ Cardinality(listed) = Len(res)
                   /\ \A i \in 1..Len(res) : res[i].count = Occurrences(res[i].query)
                   /\ \A i, j \in 1..Len(res) :
                          i < j => MorePopular(res[i].query, res[j].query)
                   /\ \A q \in asked \ listed :
                          \A i \in 1..Len(res) : MorePopular(res[i].query, q)
                   /\ (/\ Cardinality(asked) = 3
                       /\ {Occurrences(q) : q \in asked} = {3, 1}
                       /\ Len(recent_queries) = 5
                       /\ th[t].top_n = 1)
                          => /\ Len(res) = 1
                             /\ res[1].count = 3

\* "j s", "Js", "Js", "  jS ", "Js" have been recorded, and
\* get_popular_queries(1) has returned "Js" with its count of 3
C16_Witness ==
    /\ Returned("t1", "get_popular_queries")
    /\ th["t1"].top_n = 1
    /\ BufferQueries = <<QInner, QJs, QJs, QJsVariant, QJs>>
    /\ th["t1"].result.items = <<[query |-> QJs, count |-> 3]>>

\* the records of the buffer above the threshold of thread t's call
SlowRecords(t) ==
    {i \in 1..Len(recent_queries) :
        recent_queries[i].response_time > th[t].threshold_seconds}

C18_StatisticsNeverDivideByZero ==
    \A t \in Threads :
        LET stats == th[t].result.stats
        IN  /\ ~Escaped(t, "get_statistics")
            /\ (Returned(t, "get_statistics") /\ stats.recent_queries_count = 0)
                  => /\ stats.keys = {"total_queries", "message"}
                     /\ stats.total_queries = 0
            /\ (Returned(t, "get_statistics") /\ stats.recent_queries_count > 0
                  /\ stats.response_times = <<>>)
                  => /\ "avg_response_time" \in stats.keys
                     /\ stats.avg_response_time = Zero
                     /\ stats.fastest_response = 0
                     /\ stats.slowest_response = 0

\* get_statistics has returned for a buffer that held failed records only
C18_Witness ==
    \E t \in Threads :
        /\ Returned(t, "get_statistics")
        /\ th[t].result.stats.recent_queries_count > 0
        /\ th[t].result.stats.response_times = <<>>
        /\ th[t].result.stats.slowest_response = 0
        /\ \A i \in 1..Len(recent_queries) : ~recent_queries[i].success

\* C19: a clear whose commands are all served and during which nobody
\* writes to the store deletes every entry of the query key namespace (no
\* query key holds a value after it, so a get of any question cached before
\* misses), returns the number of entries it removed, and leaves the hit
\* counter and the miss counter as they were.
C19_ClearDeletesQueryKeys ==
    \A t \in Threads :
        (Returned(t, "clear") /\ th[t].faults = 0 /\ th[t].undisturbed)
            => /\ th[t].liveAfter = {}
               /\ th[t].result.deleted = Cardinality(th[t].liveBefore)
               /\ th[t].result.error = ""
               /\ th[t].countersKept
               /\ th[t].incrHits = 0 /\ th[t].incrMisses = 0

\* a clear has removed the one entry of the store, which a set had written
C19_Witness ==
    \E t, u \in Threads :
        /\ Returned(t, "clear") /\ th[t].faults = 0 /\ th[t].undisturbed
        /\ Returned(u, "set") /\ th[u].set_result = "true"
        /\ th[t].keys = {_generate_cache_key(th[u].query)}
        /\ th[t].result.deleted = 1
        /\ th[t].liveAfter = {}
        /\ LiveQueryKeys = {}

\* C20: clear never raises: when a command of it fails, the first (KEYS) or
\* the second (DEL) one, it returns a deleted count of zero.
C20_ClearNeverRaises ==
    \A t \in Threads :
        /\ ~Escaped(t, "clear")
        /\ (Returned(t, "clear") /\ th[t].faults > 0)
              => /\ th[t].result.kind = "deleted"
                 /\ th[t].result.deleted = 0

\* a clear has returned zero after its DEL failed, KEYS having found a key
C20_Witness ==
    \E t \in Threads :
        /\ Returned(t, "clear")
        /\ th[t].cmds = 2 /\ th[t].faults = 1
        /\ th[t].keys # {}
        /\ th[t].result.deleted = 0

\* the absolute value of an integer
Abs(x) == IF x < 0 THEN -x ELSE x

\* C21: get_stats is recomputed from the live counters and a live key scan
\* on each call: it never raises; a call whose commands were all served
\* returns the counters as it read them (the counters of the database when
\* nobody else has used the store), total_requests = hits + misses,
\* hit_rate_percent = hits / total * 100 to two decimals and 0 when total is
\* 0, and cached_queries = the number of query keys that were live; a call
\* with a failed command returns the error-shaped result.
C21_GetStats ==
    \A t \in Threads :
        LET f == th[t]
            c == f.result.cstats
        IN  /\ ~Escaped(t, "get_stats")
            /\ (Returned(t, "get_stats") /\ f.faults = 0)
                  => /\ c.keys = {"hits", "misses", "total_requests", "hit_rate_percent",
                                  "cached_queries", "memory_usage_mb"}
                     /\ c.hits = f.seenHits /\ c.misses = f.seenMisses
                     /\ (\A u \in Threads \ {t} : th[u].op = "none")
                           => c.hits = hits /\ c.misses = misses
                     /\ c.total_requests = c.hits + c.misses
                     /\ c.total_requests = 0 => c.hit_rate_percent = 0
                     /\ c.total_requests > 0
                           => 2 * Abs(c.hit_rate_percent * c.total_requests - c.hits * 10000)
                                 <= c.total_requests
                     /\ c.cached_queries = Cardinality(f.seenKeys)
            /\ (Returned(t, "get_stats") /\ f.faults > 0)
                  => c.keys = {"error"} /\ c.error # ""

\* get_stats has returned 1 hit, 2 misses, a hit rate of 33.33 and one
\* cached query
C21_Witness ==
    \E t \in Threads :
        /\ Returned(t, "get_stats") /\ th[t].faults = 0
        /\ th[t].result.cstats.hits = 1
        /\ th[t].result.cstats.misses = 2
        /\ th[t].result.cstats.total_requests = 3
        /\ th[t].result.cstats.hit_rate_percent = 3333
        /\ th[t].result.cstats.cached_queries = 1

\* the entry under the key of question q is the one the last set wrote, with
\* the expiry it was given: the time of the write + the TTL.  From then on
\* the store does not give it
ExpiryFixedAtWrite(q) ==
    LET k == _generate_cache_key(q)
    IN  lastSet[q].valid
            => /\ entries[k].data = lastSet[q].data
               /\ entries[k].expiry = lastSet[q].at + ttl_hours
               /\ now >= lastSet[q].at + ttl_hours => RedisGet(k) = NoPayload
               /\ now < lastSet[q].at + ttl_hours => RedisGet(k) = lastSet[q].data

\* C22: the TTL is absolute and fixed at write time: no get, hit or miss,
\* has changed any entry or its expiry, and at every moment an entry
\* written at time t with no later write to its key expires at t + TTL,
\* however often it was read in between.
C22_AbsoluteTtl ==
    /\ \A t \in Threads : th[t].storeKept
    /\ \A q \in Questions : ExpiryFixedAtWrite(q)

\* an entry that a get returned half a TTL after it was written is
\* unavailable a full TTL after it was written
C22_Witness ==
    \E t \in Threads :
        /\ Returned(t, "get") /\ th[t].seenSet.valid
        /\ th[t].cached_result = th[t].seenSet.data
        /\ th[t].readAt > th[t].seenSet.at
        /\ lastSet[th[t].query] = th[t].seenSet
        /\ now >= th[t].seenSet.at + ttl_hours
        /\ RedisGet(_generate_cache_key(th[t].query)) = NoPayload

\* C23: every ask follows the per-request state machine START, CACHE_CHECK,
\* CACHE_HIT or CACHE_MISS, PIPELINE_CALL, (PIPELINE_OK, CACHE_FILL |
\* PIPELINE_ERROR), RECORD, RESPOND: no ask leaves it with an exception; on
\* a cache hit the pipeline is not invoked and the cache not written; an ask
\* that ended without a hit has invoked the pipeline exactly once; the cache
\* is written only after a successful pipeline call; an ask that has
\* returned has recorded its query.
C23_StateMachine ==
    \A t \in Threads :
        LET f == th[t]
        IN  f.op = "ask"
                => /\ f.pc # "raised"
                   /\ Truthy(f.cached_result)
                         => f.pipelineCalls = 0 /\ f.set_result = "none"
                   /\ f.pipelineCalls <= 1
                   /\ (Ended(t, "ask") /\ ~Truthy(f.cached_result))
                         => f.pipelineCalls = 1
                   /\ f.set_result # "none"
                         => f.pipelineCalls = 1 /\ f.pipeline.ok
                   /\ Returned(t, "ask")
                         => /\ appends = f.snap.appends + 1
                            /\ recent_queries # <<>>
                            /\ recent_queries[Len(recent_queries)].full_query = f.query

\* C24: every ask that hits the external pipeline terminates: an ask that
\* has issued the pipeline call eventually returns a response (an error
\* response when the call does not complete in time), even when the
\* pipeline never completes by itself.
C24_AskTerminates ==
    \A t \in Threads : (th[t].pc = "ask_pipeline") ~> Returned(t, "ask")

\* C25: a log_query call made while no other caller uses the logger builds
\* one record and appends it, adds one to total_queries and to exactly one
\* of cache_hits / cache_misses according to the outcome's cached flag, and
\* adds one to total_errors exactly when the outcome is an error
\* (success = False), whatever the error string is.
C25_LogQueryCounts ==
    \A t \in Threads :
        LET f == th[t]
            cached == GetCached(f.response)
        IN  (Returned(t, "log_query") /\ \A u \in Threads \ {t} : th[u].op = "none")
                => /\ appends = f.snap.appends + 1
                   /\ recent_queries # <<>>
                   /\ recent_queries[Len(recent_queries)].full_query = f.query
                   /\ recent_queries[Len(recent_queries)].cached = cached
                   /\ recent_queries[Len(recent_queries)].success = f.success
                   /\ total_queries = f.snap.total_queries + 1
                   /\ cache_hits = f.snap.cache_hits + (IF cached THEN 1 ELSE 0)
                   /\ cache_misses = f.snap.cache_misses + (IF cached THEN 0 ELSE 1)
                   /\ total_errors = f.snap.total_errors + (IF f.success THEN 0 ELSE 1)

\* C26: health_check never raises: it returns connected = true with a
\* latency when the round-trip probe was served and connected = false with
\* an error text when the probe failed.
C26_HealthCheckNeverRaises ==
    \A t \in Threads :
        LET f == th[t]
        IN  /\ ~Escaped(t, "health_check")
            /\ (Returned(t, "health_check") /\ f.faults = 0)
                  => /\ f.result.kind = "health"
                     /\ f.result.connected
                     /\ f.result.latency_ms >= 0
                     /\ f.result.error = ""
            /\ (Returned(t, "health_check") /\ f.faults > 0)
                  => /\ f.result.kind = "health"
                     /\ ~f.result.connected
                     /\ f.result.error # ""

\* a health_check whose probe failed has returned connected = false
C26_Witness ==
    \E t \in Threads :
        /\ Returned(t, "health_check")
        /\ th[t].cmds = 1 /\ th[t].faults = 1
        /\ ~th[t].result.connected
        /\ th[t].result.status = "unhealthy"

\* C27: reset_stats resets the hit and miss counters of the cache store:
\* when a reset_stats made with a reachable store has returned, both
\* counter keys are gone, and a get_stats made next, with no get in between,
\* reports hits = 0 and misses = 0.
C27_ResetStats ==
    \A t \in Threads :
        LET f == th[t]
        IN  /\ (Returned(t, "reset_stats") /\ f.faults = 0)
                  => f.hitsAfter = 0 /\ f.missesAfter = 0
            /\ (/\ Returned(t, "get_stats") /\ f.faults = 0
                /\ f.prev.op = "reset_stats" /\ f.prev.pc = "ret" /\ f.prev.served
                /\ \A u \in Threads \ {t} : th[u].op = "none")
                  => /\ f.result.cstats.hits = 0
                     /\ f.result.cstats.misses = 0

\* an ask that does not consult the cache: it sends no GET and no INCR, and
\* when it ends it has returned after one pipeline call on the raw question
C28_SkipsLookup(t) ==
    LET f == th[t]
    IN  (f.op = "ask" /\ ~ConsultedCache(f))
            => /\ f.incrHits = 0 /\ f.incrMisses = 0
               /\ f.cached_data = NoPayload
               /\ f.cmds <= 1
               /\ Ended(t, "ask")
                     => /\ Returned(t, "ask")
                        /\ f.pipelineCalls = 1
                        /\ f.pipelineInput = f.query

\* a bypassing ask with the cache enabled, as it returns a fresh answer
C28_BypassAnswered(t) ==
    /\ Returned(t, "ask") /\ use_cache /\ th[t].bypass_cache
    /\ th[t].pipeline.ok

\* the answer is in the cache, in the place of whatever the key held
C28_Written(t) ==
    LET f == th[t]
        k == _generate_cache_key(f.query)
    IN  /\ f.set_result = "true"
        /\ entries[k] = [data |-> f.payload, expiry |-> f.setAt + ttl_hours]
        /\ f.payload = Json(f.pipeline.answer, DedupSources(f.pipeline.context))

\* the ask that follows a bypassing ask which returned a fresh answer: the
\* same question, not bypassed
C28_Following(t) ==
    LET f == th[t]
        p == f.prev
    IN  /\ Ended(t, "ask") /\ use_cache /\ ~f.bypass_cache
        /\ p.valid /\ p.op = "ask" /\ p.pc = "ret" /\ p.bypass_cache
        /\ p.pipelineOk /\ f.query = p.query

C28_NewAnswerFromCache(t) ==
    LET f == th[t]
    IN  /\ Returned(t, "ask")
        /\ f.response.cached
        /\ f.response.answer = f.prev.answer
        /\ f.pipelineCalls = 0

\* C28 as stated: with bypass_cache = True (or caching disabled) ask never
\* reads the cache, so the store's counters are unchanged by the lookup
\* phase, and always invokes the pipeline with the raw question; when
\* caching is enabled the successful result is still written to the cache,
\* replacing any existing entry, so a following non-bypassed ask of the same
\* question returns the new answer with cached = true.
C28_Bypass_AsStated ==
    \A t \in Threads :
        /\ C28_SkipsLookup(t)
        /\ C28_BypassAnswered(t) => C28_Written(t)
        /\ C28_Following(t) => C28_NewAnswerFromCache(t)

\* C28 amended: the same, the write and the following ask's answer being
\* claimed for asks whose Redis commands were all served, and the following
\* ask's answer for a lookup made before the TTL of the write has elapsed.
C28_Bypass ==
    \A t \in Threads :
        /\ C28_SkipsLookup(t)
        /\ (C28_BypassAnswered(t) /\ th[t].faults = 0) => C28_Written(t)
        /\ (/\ C28_Following(t) /\ th[t].faults = 0 /\ th[t].prev.served
            /\ th[t].readAt < th[t].prev.setAt + ttl_hours)
              => C28_NewAnswerFromCache(t)

\* the ask that followed a bypassing ask has returned its answer from the
\* cache, half a TTL after it was written
C28_Witness ==
    \E t \in Threads :
        /\ C28_Following(t) /\ th[t].faults = 0 /\ th[t].prev.served
        /\ th[t].readAt > th[t].prev.setAt
        /\ th[t].response.cached
        /\ th[t].response.answer = "JSX is"
        /\ th[t].pipelineCalls = 0

\* the ask calls that have returned: the current and the previous call of
\* each thread
AsksReturned ==
    Cardinality({t \in Threads : Returned(t, "ask")})
    + Cardinality({t \in Threads :
                      th[t].prev.valid /\ th[t].prev.op = "ask" /\ th[t].prev.pc = "ret"})

\* C29: every ask call that returns has appended exactly one QueryRecord
\* and increased total_queries by exactly one, whichever path it took: once
\* the asks of the chat sessions have all ended, the number of appended
\* records and total_queries both equal the number of asks that returned.
C29_OneRecordPerAsk ==
    (\A t \in Threads : Free(t))
        => /\ appends = AsksReturned
           /\ Len(recent_queries) = AsksReturned
           /\ total_queries = AsksReturned

\* the calls of the long run whose records are still in the buffer after k
\* calls, and those among calls that reported success
RingKept(k) == {n \in 1..k : n > k - RecentMaxLen}
RingKeptOk(k) == {n \in RingKept(k) : RingSuccess(n)}
RingHits(k) == Cardinality({n \in 1..k : RingResponse(n).cached})
RingErrors(k) == Cardinality({n \in 1..k : ~RingSuccess(n)})
RECURSIVE SumSet(_)
SumSet(S) == IF S = {} THEN 0 ELSE LET x == CHOOSE y \in S : TRUE IN x + SumSet(S \ {x})

\* C30: hit/miss totals survive buffer eviction: get_statistics called after
\* k log_query calls returns total_queries = k, cache_hits and cache_misses
\* counted over all k calls, hit rate and error rate taken from those
\* lifetime counters, recent_queries_count = min(k, 100), and the average,
\* fastest and slowest response time of the successful records still in the
\* buffer only.
C30_TotalsSurviveEviction ==
    LET k == lqCalls
        stats == th["t1"].result.stats
    IN  (Returned("t1", "get_statistics") /\ k > 0)
           => /\ stats.total_queries = k
              /\ stats.cache_hits = RingHits(k)
              /\ stats.cache_misses = k - RingHits(k)
              /\ stats.total_errors = RingErrors(k)
              /\ stats.cache_hit_rate_percent = [num |-> RingHits(k) * 100, den |-> k]
              /\ stats.error_rate_percent = [num |-> RingErrors(k) * 100, den |-> k]
              /\ stats.recent_queries_count = Cardinality(RingKept(k))
              /\ stats.recent_queries_count <= RecentMaxLen
              /\ RingKeptOk(k) # {}
                    => /\ stats.avg_response_time
                            = [num |-> SumSet(RingKeptOk(k)),
                               den |-> Cardinality(RingKeptOk(k))]
                       /\ \A n \in RingKeptOk(k) :
                              stats.fastest_response <= n /\ n <= stats.slowest_response
                       /\ stats.fastest_response \in RingKeptOk(k)
                       /\ stats.slowest_response \in RingKeptOk(k)

\* 104 queries have been recorded and get_statistics has returned: the
\* records of the first four calls, the cache hit of the third among them,
\* are gone from the buffer and still counted
C30_Witness ==
    /\ Returned("t1", "get_statistics")
    /\ lqCalls = RecentMaxLen + 4
    /\ th["t1"].result.stats.total_queries = RecentMaxLen + 4
    /\ th["t1"].result.stats.recent_queries_count = RecentMaxLen
    /\ th["t1"].result.stats.cache_hits
          > Cardinality({i \in 1..Len(recent_queries) : recent_queries[i].cached})
    /\ th["t1"].result.stats.fastest_response = 5
    /\ th["t1"].result.stats.slowest_response = RecentMaxLen + 4

\* C31: export_metrics_summary is a snapshot: the statistics, the popular
\* queries and the slow queries of a returned summary are computed from the
\* same state of the ring buffer and the counters, also beside concurrent
\* log_query calls.
C31_ExportIsSnapshot ==
    \A t \in Threads :
        Returned(t, "export_metrics_summary")
            => LET f == th[t]
               IN  /\ f.bufferSeen.popular = f.bufferSeen.stats
                   /\ f.bufferSeen.slow = f.bufferSeen.stats
                   /\ f.result.stats.recent_queries_count = Len(f.bufferSeen.stats)
                   /\ f.bufferSeen.stats # <<>>
                         => f.result.stats.total_queries = f.totalSeen

\* C32: ReactDotChatbot.health_check never raises; it reports "unhealthy"
\* whenever the vector-store probe failed, whatever the cache said,
\* "degraded" when the probe succeeded and the ping of an enabled cache
\* failed, and "healthy" otherwise, a disabled cache included.
C32_ChatbotHealth ==
    \A t \in Threads :
        LET f == th[t]
            pingFailed == f.faults > 0
        IN  /\ ~Escaped(t, "chatbot_health_check")
            /\ Returned(t, "chatbot_health_check")
                  => /\ f.result.chromadb = "unhealthy"
                           => f.result.overall = "unhealthy"
                     /\ (f.result.chromadb = "healthy" /\ use_cache /\ pingFailed)
                           => f.result.overall = "degraded"
                     /\ (f.result.chromadb = "healthy" /\ ~(use_cache /\ pingFailed))
                           => f.result.overall = "healthy"
                     /\ ~use_cache => f.result.status = "disabled" /\ f.cmds = 0

\* the health check of a chatbot with a cache has returned "unhealthy": the
\* ping failed and the vector-store probe failed too
C32_Witness ==
    \E t \in Threads :
        /\ Returned(t, "chatbot_health_check")
        /\ use_cache /\ th[t].faults = 1 /\ ~th[t].result.connected
        /\ th[t].result.chromadb = "unhealthy"
        /\ th[t].result.overall = "unhealthy"

\* C33: the sources of every fresh response (cached = false, no error) hold
\* no identifier twice and are exactly the source identifiers of the
\* documents the pipeline returned; the value written to the cache for the
\* query is exactly {answer, sources} of that response, without the cached,
\* response_time and retrieval_time fields.
C33_FreshSources ==
    \A t \in Threads :
        LET f == th[t]
            written == lastSet[f.query].data
        IN  (Returned(t, "ask") /\ ~f.response.cached /\ "error" \notin f.response.keys)
               => /\ \A x \in BagToSet(f.response.sources) :
                         CopiesIn(x, f.response.sources) = 1
                  /\ BagToSet(f.response.sources)
                        = {f.pipeline.context[i] : i \in 1..Len(f.pipeline.context)}
                  /\ f.set_result = "true"
                        => /\ written.kind = "json"
                           /\ written.keys = {"answer", "sources"}
                           /\ written.answer = f.response.answer
                           /\ written.sources = f.response.sources
                           /\ lastSet[f.query].at = f.setAt

\* a fresh answer built from three documents, two of them from the same
\* source, has been returned and written to the cache
C33_Witness ==
    \E t \in Threads :
        /\ Returned(t, "ask") /\ ~th[t].response.cached
        /\ th[t].pipeline.ok /\ th[t].pipeline.context = <<"doc1", "doc1", "doc2">>
        /\ th[t].response.sources = SetToBag({"doc1", "doc2"})
        /\ th[t].set_result = "true"
        /\ entries[_generate_cache_key(th[t].query)].data.sources = th[t].response.sources

\* C34: in every reachable state of a chatbot run total_errors is at most
\* total_queries (so the reported error rate stays within 0..100), and an
\* ask whose pipeline call failed has added exactly one to total_errors.
C34_ErrorsWithinQueries ==
    /\ total_errors <= total_queries
    /\ \A t \in Threads :
          (Returned(t, "ask") /\ th[t].pipelineCalls = 1 /\ ~th[t].pipeline.ok)
              => total_errors = th[t].snap.total_errors + 1

\* C35: cache integrity under any interleaving of concurrent asks: every
\* response with cached = true carries the answer and sources of an earlier
\* successful pipeline call for a question with the same normalized text;
\* an error response is never in the cache: every entry, also one that two
\* callers who missed together both wrote, is {answer, sources} of one of
\* the pipeline calls made for its key.
C35_CacheIntegrity ==
    /\ \A t \in Threads :
          (th[t].op = "ask" /\ th[t].response.cached)
              => \E c \in FreshResults :
                    /\ SameUpToCaseAndSpace(c.query, th[t].query)
                    /\ c.answer = th[t].response.answer
                    /\ c.sources = th[t].response.sources
    /\ \A q \in Questions :
          LET e == entries[_generate_cache_key(q)]
          IN  e # NoEntry
                 => /\ e.data.kind = "json"
                    /\ e.data.keys = {"answer", "sources"}
                    /\ \E c \in FreshResults :
                          /\ SameUpToCaseAndSpace(c.query, q)
                          /\ e.data.answer = c.answer
                          /\ e.data.sources = c.sources

\* two sessions have asked the same question in two spellings, both missed,
\* their pipeline calls gave different answers and both wrote the cache: the
\* entry left is the answer of the first session
C35_Witness ==
    /\ Returned("t1", "ask") /\ Returned("t2", "ask")
    /\ th["t1"].query # th["t2"].query
    /\ SameUpToCaseAndSpace(th["t1"].query, th["t2"].query)
    /\ ~th["t1"].response.cached /\ ~th["t2"].response.cached
    /\ th["t1"].set_result = "true" /\ th["t2"].set_result = "true"
    /\ th["t1"].response.answer # th["t2"].response.answer
    /\ entries[_generate_cache_key(th["t2"].query)].data.answer = th["t1"].response.answer

\* C36: get_logger returns one and the same CodeSearchLogger instance to
\* every caller, also when the first calls are made concurrently: at most
\* one logger is ever created, and every call returns the instance that the
\* calls before it returned.
C36_OneLogger ==
    /\ loggers <= 1
    /\ \A t, u \in Threads :
          (Returned(t, "get_logger") /\ Returned(u, "get_logger"))
              => th[t].result.instance = th[u].result.instance
    /\ \A t \in Threads :
          (Returned(t, "get_logger") /\ th[t].tmp # 0)
              => th[t].result.instance = th[t].tmp

\* C37: the two hit tallies agree: in a run of one process that starts with
\* zeroed counters and reaches the cache only through ask, whenever no ask
\* is in progress the cache store's hit counter equals the logger's
\* cache_hits and the store's miss counter is at most the logger's
\* cache_misses.
C37_TalliesAgree ==
    (\A t \in Threads : Free(t))
        => /\ hits = cache_hits
           /\ misses <= cache_misses

\* the chatbot has been built and was left without a cache
BuiltWithoutCache ==
    /\ nOps >= 1
    /\ \A t \in Threads : th[t].op # "__init__" \/ th[t].pc = "ret"
    /\ ~use_cache

\* C38: if the cache service is unreachable or unhealthy when the chatbot is
\* constructed, construction still succeeds with the cache disabled; from
\* then on every ask invokes the pipeline, returns cached = false and sends
\* no command to the cache, which nothing has read or written; and
\* get_cache_stats and clear_cache return an error-shaped result without
\* raising.
C38_BuiltWithoutCache ==
    /\ \A t \in Threads :
          /\ ~Escaped(t, "__init__")
          /\ (Returned(t, "__init__") /\ th[t].faults > 0) => ~use_cache
    /\ BuiltWithoutCache
          => /\ \A k \in CacheKeys : entries[k] = NoEntry
             /\ hits = 0 /\ misses = 0 /\ getCalls = 0
             /\ \A t \in Threads :
                   LET f == th[t]
                   IN  /\ f.op \in {"ask", "get_cache_stats", "clear_cache"}
                             => f.cmds = 0 /\ f.pc # "raised"
                       /\ Returned(t, "ask")
                             => f.pipelineCalls = 1 /\ ~f.response.cached
                       /\ (f.op \in {"get_cache_stats", "clear_cache"} /\ f.pc = "ret")
                             => /\ f.result.kind = "error"
                                /\ f.result.error = "Cache not enabled"

\* a ping of the constructor (that of RedisCache.__init__ or that of the
\* health check) was not answered; the chatbot was built all the same, and
\* the ask made on it has returned a fresh answer without a command to the
\* cache
C38_Witness ==
    /\ BuiltWithoutCache
    /\ Returned("t1", "ask")
    /\ th["t1"].prev.valid /\ th["t1"].prev.op = "__init__"
    /\ th["t1"].prev.pc = "ret" /\ ~th["t1"].prev.served
    /\ th["t1"].pipelineCalls = 1 /\ th["t1"].pipeline.ok
    /\ th["t1"].cmds = 0 /\ ~th["t1"].response.cached

=============================================================================
